---------------------------- MODULE Spec2Model ----------------------------
(***************************************************************************)
(* A model of the crawl-and-ingest pipeline of auto_auction.               *)
(*                                                                         *)
(*   SpecPool    MemoryOptimizedBrowserPool (get_data.py): the coroutines  *)
(*               calling get_browser / return_browser, the background      *)
(*               _periodic_cleanup task and cleanup().  The pool runs on   *)
(*               one asyncio event loop, so a coroutine is interrupted     *)
(*               only where it awaits something that really suspends:      *)
(*               one action is the code between two such points.           *)
(*   SpecLedger  the status updates on processed_urls rows and the fetch   *)
(*               of unprocessed rows (db.py, get_details.py).              *)
(*   SpecIngest  the staged and the strict ingestion of listings into      *)
(*               vehicles / staging_vehicles / processed_urls (db.py,      *)
(*               get_data.py), on listings that differ in their link.      *)
(*   SpecResubmit  the same ingestion on listings that differ in price.    *)
(*   SpecPaginate  the pagination loop of extract_sales_data_from_results  *)
(*               over a results stream (get_sales_data.py).                *)
(*   SpecSession the workers of a site: process_site_workload_parallel     *)
(*               and process_site_session (get_sales_data.py).             *)
(*   SpecSites   the run over all sites: process_all_sites_simply and      *)
(*               _process_single_site on an initialized pool, the          *)
(*               cancellation of the run and the cleanup that follows      *)
(*               (get_data.py).                                            *)
(*   SpecLimiter AdaptiveRateLimiter.wait_and_adapt on the limiters the    *)
(*               program constructs (get_inventory_data.py).               *)
(*   SpecMatch   the resolver of makes and models: find_best_match on      *)
(*               lists of option texts (get_sales_data.py).                *)
(*   SpecParse   the parsers of numeric fields: parse_numeric,             *)
(*               _extract_number and _parse_numeric on short texts         *)
(*               (standardizer.py, get_data.py, get_details.py).           *)
(*   SpecRead    the reads of whole tables from a store that returns at    *)
(*               most a page of rows per request: get_url_pool             *)
(*               (get_details.py), populate_processed_urls and             *)
(*               process_staging_to_main (db.py).                          *)
(*   SpecReingest  the strict ingestion on a ledger whose entries are      *)
(*               marked processed between the runs (get_data.py, db.py).   *)
(*   SpecRetry   the retries of a search: fill_search_form_with_filters    *)
(*               and click_search_button_with_retry (get_sales_data.py).   *)
(*   SpecSpacing the fixed-interval limiter of the site coroutines:        *)
(*               respect_rate_limit (get_data.py).                         *)
(*   SpecEnrich  the loop of run_extraction over the unprocessed entries   *)
(*               of the ledger (extract_auction_data.py).                  *)
(*   SpecConsumers  two runs of that loop on one store.                    *)
(***************************************************************************)
EXTENDS Integers, Sequences, FiniteSets, TLC

VARIABLES
    \* ---- MemoryOptimizedBrowserPool fields
    initialized,            \* self.initialized
    available_browsers,     \* self.available_browsers: asyncio.Queue(maxsize=pool_size)
    in_use,                 \* self.in_use
    playwright,             \* self.playwright: "none" | "started" | "stopped"
    cleanup_task,           \* self.cleanup_task: NoTask or the task last created
    browser_creation_time,  \* self.browser_creation_time
    \* ---- the environment of the pool
    now,                    \* time.time(), in ticks, as of the last return of asyncio.sleep
    created,                \* browsers launched so far; browser ids are 1..created
    closed,                 \* closed[b]: completed browser.close() calls on b
    faults,                 \* exceptions raised so far by the browser driver
    \* ---- the coroutines using the pool: each, like _process_single_site, calls
    \* get_browser once and return_browser in its finally block
    cpc, cbrowser, ci,
    \* ---- _periodic_cleanup tasks (task t is the one created by caller t)
    rpc, browsers_to_refresh, browsers_to_keep,
    \* ---- cleanup()
    spc, scopy, scur, cleanup_calls, sheld,
    \* ---- the backing store: the tables, as sets of rows
    vehicles, staging_vehicles, processed_urls, vehicle_details,
    \* ---- the environment of the store
    store_faults,           \* store calls that raised for a reason outside the data
    submitted,              \* listings handed to the ingestion handlers so far
    history,                \* per key, for each call that had listings of the
                            \* key, their prices in the order of the batch
    last_staged,            \* the batch of the staged run that ran last and raised
                            \* nothing; <<>> if the last handler to run was another
    write_failed,           \* a write to vehicles or staging_vehicles has raised
    staging_failed,         \* the insert into staging_vehicles has raised
    fetched,                \* the last fetch of unprocessed entries: its limit,
                            \* the ids it returned, and a turn that tells it
                            \* from the fetch before
    \* ---- extract_sales_data_from_results and the page it reads
    stream,                 \* the results stream of the search
    shown,                  \* the page of the stream in the browser
    page_num, all_results,
    requested,              \* next-page clicks of the call
    pages_read,             \* pages whose rows the call has extracted
    pages_seen,             \* the pages of the stream they were
    stop,                   \* "none" in the loop, else the way the loop was left
    extraction,             \* 1: the call of fill_search_form_with_filters,
                            \* 2: the call of process_site_session that follows
    page_faults,            \* timeouts and exceptions of the page so far
    \* ---- process_site_workload_parallel and its process_site_session workers
    workload,               \* the tasks of the site are 1..workload
    session_pc,             \* per worker: "idle" | "tasks" | "done"
    item,                   \* per worker: the item of its shard the loop is at
    task_result,                 \* per task: "none" or what its pass ended in
    recorded,               \* tasks whose failure has a record in the log
    launched,               \* per worker: browsers launched
    logins,                 \* per worker: calls of login_to_site
    login_failed,           \* workers whose login failed and was reported
    unusable,               \* per worker: the execution context of its page is gone
    search_attempts,        \* per task: attempts of fill_search_form_with_filters
    attempts,               \* per task: passes of the for loop over the task
    site_done,              \* the summary of the site has been written
    \* ---- process_all_sites_simply and its _process_single_site coroutines
    run_pc,                 \* "running" | "cleanup" | "exited"
    cancel_requested,       \* the task of the run has been cancelled
    grand_total,            \* total_listings of process_all_sites_simply
    site_pc,                \* per site: "idle" | "acquired" | "searches" | "done"
    site_browser,           \* per site: browser of _process_single_site
    search_item,            \* per site: the search the for loop is at
    searched,               \* per site: the searches attempted
    search_errors,          \* per site: the searches that raised
    total_listings,         \* per site: total_listings of _process_single_site
    site_results,           \* per site: what gather has for it
    logged_in,              \* sites whose login returned True
    acquired,               \* browsers get_browser has handed to a site
    released,               \* browsers return_browser has put back
    \* ---- AdaptiveRateLimiter: delays in microseconds, latencies in
    \* milliseconds
    min_delay, max_delay, current_delay,
    response_times,         \* deque(maxlen=10)
    error_count, success_count,
    calls,                  \* calls of wait_and_adapt so far
    delay_at_call,          \* current_delay when the last call began
    slept,                  \* the argument of the asyncio.sleep of the last call
    error_streak,           \* the calls with had_error that end the history
    error_from,             \* current_delay before the first of them
    fast_streak,            \* the fast successes that end the history
    fast_from,              \* current_delay before the first of them
    \* ---- find_best_match: texts are sequences of characters
    search_term,            \* the make or model asked for
    options,                \* the texts of the options of the dropdown, in its
                            \* order; the value of an option is its place
    best_match,             \* what find_best_match returned
    \* ---- the parsers of numeric fields
    value_str,              \* the text handed to the parser
    parser,                 \* "none" or the parser that was called
    parsed,                 \* what it returned
    \* ---- the reads of whole tables
    matching,               \* the ids of the rows of the table the filter matches
    reader,                 \* "none" or the function that reads
    read_offset,            \* offset of get_url_pool
    all_urls,               \* the ids of the rows read so far
    requests,               \* requests sent to the store
    read_done,              \* the read has ended
    \* ---- the retries of a search: waits in milliseconds
    retrier,                \* "none" or the function that retries
    retry_pc,               \* "form" | "click" | "done"
    form_attempt,           \* `attempt` of the outer loop
    click_attempt,          \* `attempt` of click_search_button_with_retry
    clicks,                 \* times the search was triggered for the task
    pending_wait,           \* slept since the search was last triggered
    waits,                  \* the waits between successive triggers
    clicked,                \* the last trigger did not raise
    retry_result,           \* "none" | "success" | "failed"
    \* ---- EnhancedSearchOptimizer.respect_rate_limit: times in seconds
    clock,                  \* time.time()
    last_request_time,      \* self.last_request_time, 0 for a site not in it
    spacing_pc,             \* where the coroutine of each site is
    wake_at,                \* when the asyncio.sleep of the site is over
    request_at,             \* the times of the requests sent to each site
    \* ---- AuctionDataExtractor.run_extraction
    enrich_pc,              \* "idle" | "fetch" | "process" | "exited"
    url_batch,              \* the ids of `urls` still to be processed
    ever_failed,            \* an attempt at an entry has failed
    \* ---- runs of AuctionDataExtractor.run_extraction sharing one store
    consumer_pc,            \* "idle" | "fetch" | "process" | "exited", per run
    consumer_batch,         \* the ids of `urls` whose task has not started
    in_progress             \* the ids marked started whose task has not finished

poolVars == <<initialized, available_browsers, in_use, playwright, cleanup_task,
              browser_creation_time, now, created, closed, faults,
              cpc, cbrowser, ci,
              rpc, browsers_to_refresh, browsers_to_keep,
              spc, scopy, scur, cleanup_calls, sheld>>

storeVars == <<vehicles, staging_vehicles, processed_urls, vehicle_details,
               store_faults, submitted, history, last_staged, write_failed, staging_failed,
               fetched>>

pageVars == <<stream, shown, page_num, all_results, requested, pages_read, pages_seen,
              stop, extraction, page_faults>>

sessionVars == <<workload, session_pc, item, task_result, recorded, launched, logins,
                 login_failed, unusable, search_attempts, attempts, site_done>>

siteVars == <<run_pc, cancel_requested, grand_total, site_pc, site_browser,
              search_item, searched, search_errors, total_listings, site_results,
              logged_in, acquired, released>>

limiterVars == <<min_delay, max_delay, current_delay, response_times, error_count,
                 success_count, calls, delay_at_call, slept, error_streak,
                 error_from, fast_streak, fast_from>>

matchVars == <<search_term, options, best_match>>

parseVars == <<value_str, parser, parsed>>

readVars == <<matching, reader, read_offset, all_urls, requests, read_done>>

retryVars == <<retrier, retry_pc, form_attempt, click_attempt, clicks, pending_wait,
               waits, clicked, retry_result>>

spacingVars == <<clock, last_request_time, spacing_pc, wake_at, request_at>>

enrichVars == <<enrich_pc, url_batch, ever_failed>>

consumerVars == <<consumer_pc, consumer_batch, in_progress>>

helperVars == <<retryVars, spacingVars, enrichVars, consumerVars>>

toolVars == <<limiterVars, matchVars, parseVars, readVars, helperVars>>

crawlVars == <<pageVars, sessionVars, siteVars, toolVars>>

vars == <<poolVars, storeVars, crawlVars>>

(***************************************************************************)
(*                    MemoryOptimizedBrowserPool                           *)
(***************************************************************************)

\* pool_size=2, the default of MemoryOptimizedBrowserPool.__init__
pool_size == 2

\* browser_age > 3600 in _should_refresh_browser
MaxBrowserAge == 3600

\* Bounds of the pool model
NumCallers == 2
MaxBrowsers == 5
MaxTicks == 1
SecondsPerTick == 3601
MaxFaults == 1
MaxCleanupCalls == 1

Callers == 1..NumCallers
Browsers == 1..MaxBrowsers
NoBrowser == 0
NoTask == 0
NoTime == -1

SeqToSet(s) == {s[i] : i \in 1..Len(s)}

Min(a, b) == IF a < b THEN a ELSE b

\* what `await self.available_browsers.get()` leaves in the queue
QueueAfterGetKeepsHead(q) == q

QueueAfterGet(q) == Tail(q)

\* return_browser without its test: every browser handed in is taken back
TakenBackUnchecked(b) == TRUE

\* `if browser in self.in_use` of return_browser
IsInUse(b) == b \in in_use

\* asyncio.Queue.full()
QueueFull == Len(available_browsers) >= pool_size

\* self.browser_creation_time.get(browser, 0)
CreationTime(b) ==
    IF browser_creation_time[b] = NoTime THEN 0 ELSE browser_creation_time[b]

\* _should_refresh_browser, at time t
ShouldRefresh(b, t) == (t - CreationTime(b)) * SecondsPerTick > MaxBrowserAge

\* _create_optimized_browser needs a running playwright
CanLaunch == playwright = "started" /\ created < MaxBrowsers

\* the driver may raise: at most MaxFaults spontaneous failures, and every
\* launch on a stopped playwright fails
MayFail == faults < MaxFaults

PoolInit ==
    /\ initialized = FALSE
    /\ available_browsers = <<>>
    /\ in_use = {}
    /\ playwright = "none"
    /\ cleanup_task = NoTask
    /\ browser_creation_time = [b \in Browsers |-> NoTime]
    /\ now = 0
    /\ created = 0
    /\ closed = [b \in Browsers |-> 0]
    /\ faults = 0
    /\ cpc = [c \in Callers |-> "idle"]
    /\ cbrowser = [c \in Callers |-> NoBrowser]
    /\ ci = [c \in Callers |-> 0]
    /\ rpc = [t \in Callers |-> "none"]
    /\ browsers_to_refresh = [t \in Callers |-> <<>>]
    /\ browsers_to_keep = [t \in Callers |-> <<>>]
    /\ spc = "idle"
    /\ scopy = {}
    /\ scur = NoBrowser
    /\ cleanup_calls = 0
    /\ sheld = {}

\* ---- the crawl: pagination and workers
\* the safety limit of the pagination loop
MaxPages == 50
\* num_sessions of process_site_workload
num_sessions == 3
\* max_retries of fill_search_form_with_filters
max_retries == 3
\* should_log: every 20th item of a shard
LogEvery == 20

\* Bounds of the crawl model
PageRows == 10
MaxShortStream == 3
MaxStreamPages == 52
MaxShortRows == 1
MaxPageFaults == 1
MaxWorkload == 4
OtherAnchor == 99
LastRows == {4, PageRows}
OtherAnchors == {4, OtherAnchor}

Sessions == 1..num_sessions

\* a search without results
NoStream == [pages |-> 0, last |-> PageRows, short |-> 0, others |-> {}]

\* the page after the search: the first page of the stream
PageIdle ==
    /\ shown = 1
    /\ page_num = 1
    /\ all_results = 0
    /\ requested = 0
    /\ pages_read = 0
    /\ pages_seen = {}
    /\ stop = "none"
    /\ extraction = 1
    /\ page_faults = 0

\* no worker started
SessionIdle ==
    /\ session_pc = [s \in Sessions |-> "idle"]
    /\ item = [s \in Sessions |-> 1]
    /\ task_result = [t \in 1..MaxWorkload |-> "none"]
    /\ recorded = {}
    /\ launched = [s \in Sessions |-> 0]
    /\ logins = [s \in Sessions |-> 0]
    /\ login_failed = {}
    /\ unusable = [s \in Sessions |-> FALSE]
    /\ search_attempts = [t \in 1..MaxWorkload |-> 0]
    /\ attempts = [t \in 1..MaxWorkload |-> 0]
    /\ site_done = FALSE

\* the sites of the run and the searches _prepare_site_searches gives each
NumSites == 3
NumSearches == 2
MaxSaved == 1
CrawlSites == 1..NumSites
Searches == 1..NumSearches

\* what gather holds for a coroutine that has not returned, and for one that
\* was cancelled
NoResult == -1
CancelledResult == -2

\* process_all_sites_simply not called
SitesIdle ==
    /\ run_pc = "running"
    /\ cancel_requested = FALSE
    /\ grand_total = NoResult
    /\ site_pc = [x \in CrawlSites |-> "idle"]
    /\ site_browser = [x \in CrawlSites |-> NoBrowser]
    /\ search_item = [x \in CrawlSites |-> 1]
    /\ searched = [x \in CrawlSites |-> {}]
    /\ search_errors = [x \in CrawlSites |-> {}]
    /\ total_listings = [x \in CrawlSites |-> 0]
    /\ site_results = [x \in CrawlSites |-> NoResult]
    /\ logged_in = {}
    /\ acquired = {}
    /\ released = {}

\* AdaptiveRateLimiter.__init__: initial_delay, min_delay and max_delay of the
\* class and of PerformanceConfig CONSERVATIVE, BALANCED and AGGRESSIVE
LimiterConfigs ==
    {[initial_delay |-> 500000, min_delay |-> 100000, max_delay |-> 3000000],
     [initial_delay |-> 300000, min_delay |-> 100000, max_delay |-> 1000000],
     [initial_delay |-> 100000, min_delay |-> 50000, max_delay |-> 500000],
     [initial_delay |-> 50000, min_delay |-> 20000, max_delay |-> 200000]}

\* the limiter constructed with a configuration
LimiterWith(config) ==
    /\ min_delay = config.min_delay
    /\ max_delay = config.max_delay
    /\ current_delay = config.initial_delay
    /\ response_times = <<>>
    /\ error_count = 0
    /\ calls = 0
    /\ delay_at_call = config.initial_delay
    /\ slept = 0
    /\ error_streak = 0
    /\ error_from = config.initial_delay
    /\ fast_streak = 0
    /\ fast_from = config.initial_delay

\* the limiter of the class defaults, not called
LimiterIdle ==
    /\ LimiterWith([initial_delay |-> 500000, min_delay |-> 100000,
                    max_delay |-> 3000000])
    /\ success_count = 0

\* what find_best_match has returned before it is called, and the value None
NotCalled == [value |-> 0, info |-> "not_called"]
NoValue == 0

\* find_best_match not called
MatchIdle ==
    /\ search_term = <<>>
    /\ options = <<>>
    /\ best_match = NotCalled

\* no parser called
ParseIdle ==
    /\ value_str = <<>>
    /\ parser = "none"
    /\ parsed = 0

\* no read started
ReadIdle ==
    /\ reader = "none"
    /\ read_offset = 0
    /\ all_urls = {}
    /\ requests = 0
    /\ read_done = FALSE

\* no search to retry
RetryIdle ==
    /\ retrier = "none"
    /\ retry_pc = "done"
    /\ form_attempt = 0
    /\ click_attempt = 0
    /\ clicks = 0
    /\ pending_wait = 0
    /\ waits = <<>>
    /\ clicked = FALSE
    /\ retry_result = "none"

\* the time at which the run starts, and the last time of the model
StartTime == 10
MaxTime == 16

\* no site searched yet
SpacingIdle ==
    /\ clock = StartTime
    /\ last_request_time = [x \in CrawlSites |-> 0]
    /\ spacing_pc = [x \in CrawlSites |-> "idle"]
    /\ wake_at = [x \in CrawlSites |-> 0]
    /\ request_at = [x \in CrawlSites |-> <<>>]

\* run_extraction not called
EnrichIdle ==
    /\ enrich_pc = "idle"
    /\ url_batch = {}
    /\ ever_failed = FALSE

\* the runs of the extractor that share the store
NumConsumers == 2
Consumers == 1..NumConsumers

\* no run of the extractor started
ConsumersIdle ==
    /\ consumer_pc = [c \in Consumers |-> "idle"]
    /\ consumer_batch = [c \in Consumers |-> {}]
    /\ in_progress = [c \in Consumers |-> {}]

HelpersIdle == RetryIdle /\ SpacingIdle /\ EnrichIdle /\ ConsumersIdle

\* no limiter, no resolver and no parser called, no read started on an empty
\* table, no helper at work
ToolsIdle ==
    LimiterIdle /\ MatchIdle /\ ParseIdle /\ matching = {} /\ ReadIdle /\ HelpersIdle

\* no search made, no worker started, no run started
CrawlIdle ==
    /\ stream = NoStream
    /\ PageIdle
    /\ workload = 0
    /\ SessionIdle
    /\ SitesIdle
    /\ ToolsIdle

\* ---- the rows and the listings of the store model
Sites == {"AutoPacific", "Zervtek"}
MaxLot == 2
Prices == {100, 200, 300}
Links == {"/a", "/b"}
NoLink == ""
Null == "null"
NoVehicle == 0

\* Bounds of the store model
MaxListings == 3
MaxBatchLen == 2
MaxStoreFaults == 1
MaxResubmitFaults == 2
NumLedgerEntries == 2
\* DATABASE_CONFIG["batch_size"], scaled down to the tables of the model
batch_size == 2

Keys == Sites \X (1..MaxLot)

StoreIdle ==
    /\ vehicles = {}
    /\ staging_vehicles = {}
    /\ processed_urls = {}
    /\ vehicle_details = {}
    /\ store_faults = 0
    /\ submitted = 0
    /\ history = [k \in Keys |-> <<>>]
    /\ last_staged = <<>>
    /\ write_failed = FALSE
    /\ staging_failed = FALSE
    /\ fetched = [ids |-> {}, limit |-> 0, turn |-> 0]

unchangedPoolFields ==
    UNCHANGED <<initialized, available_browsers, in_use, playwright, cleanup_task,
                browser_creation_time>>
unchangedCallers == UNCHANGED <<cpc, cbrowser, ci>>
unchangedRecycler == UNCHANGED <<rpc, browsers_to_refresh, browsers_to_keep>>
unchangedCleanup == UNCHANGED <<spc, scopy, scur, cleanup_calls, sheld>>

-----------------------------------------------------------------------------
\* get_browser on a pool not yet initialized, up to the first suspension of
\* initialize.  (On an initialized pool get_browser does nothing before its
\* queue.get() returns: GetBrowser.)
CallGetBrowser(c) ==
    /\ cpc[c] = "idle"
    /\ ~initialized
    /\ cpc' = [cpc EXCEPT ![c] = "starting"]
    /\ UNCHANGED <<cbrowser, ci>>
    /\ unchangedPoolFields
    /\ UNCHANGED <<now, created, closed, faults>>
    /\ unchangedRecycler /\ unchangedCleanup
    /\ UNCHANGED <<storeVars, crawlVars>>

\* initialize: async_playwright().start() returned
InitStarted(c) ==
    /\ cpc[c] = "starting"
    /\ playwright' = "started"
    /\ ci' = [ci EXCEPT ![c] = 0]
    /\ cpc' = [cpc EXCEPT ![c] = "creating"]
    /\ UNCHANGED <<cbrowser, initialized, available_browsers, in_use, cleanup_task,
                   browser_creation_time, now, created, closed, faults>>
    /\ unchangedRecycler /\ unchangedCleanup
    /\ UNCHANGED <<storeVars, crawlVars>>

\* initialize: the code after `await self.available_browsers.put(browser)`
InitAfterPut(c, b) ==
    /\ available_browsers' = Append(available_browsers, b)
    /\ browser_creation_time' = [browser_creation_time EXCEPT ![b] = now]
    /\ ci' = [ci EXCEPT ![c] = ci[c] + 1]
    /\ cbrowser' = [cbrowser EXCEPT ![c] = NoBrowser]
    /\ IF ci[c] + 1 >= pool_size
       THEN /\ initialized' = TRUE
            /\ cleanup_task' = c
            /\ rpc' = [rpc EXCEPT ![c] = "sleeping"]
            /\ cpc' = [cpc EXCEPT ![c] = "getting"]
       ELSE /\ cpc' = [cpc EXCEPT ![c] = "creating"]
            /\ UNCHANGED <<initialized, cleanup_task, rpc>>
    /\ UNCHANGED <<in_use, playwright, now, closed, faults>>
    /\ UNCHANGED <<browsers_to_refresh, browsers_to_keep>>
    /\ unchangedCleanup
    /\ UNCHANGED <<storeVars, crawlVars>>

\* initialize: _create_optimized_browser returned; put blocks on a full queue
InitCreated(c) ==
    /\ cpc[c] = "creating"
    /\ CanLaunch
    /\ created' = created + 1
    /\ IF QueueFull
       THEN /\ cpc' = [cpc EXCEPT ![c] = "putting"]
            /\ cbrowser' = [cbrowser EXCEPT ![c] = created + 1]
            /\ UNCHANGED <<ci, initialized, available_browsers, in_use, playwright,
                           cleanup_task, browser_creation_time, now, closed, faults>>
            /\ unchangedRecycler /\ unchangedCleanup
            /\ UNCHANGED <<storeVars, crawlVars>>
       ELSE InitAfterPut(c, created + 1)

\* initialize: the blocked put went through
InitPut(c) ==
    /\ cpc[c] = "putting"
    /\ ~QueueFull
    /\ UNCHANGED created
    /\ InitAfterPut(c, cbrowser[c])

\* initialize: _create_optimized_browser raised; initialize and get_browser raise,
\* and the caller ends without a browser
InitCreateFails(c) ==
    /\ cpc[c] = "creating"
    /\ \/ MayFail /\ faults' = faults + 1
       \/ playwright = "stopped" /\ UNCHANGED faults
    /\ cpc' = [cpc EXCEPT ![c] = "done"]
    /\ UNCHANGED <<cbrowser, ci>>
    /\ unchangedPoolFields
    /\ UNCHANGED <<now, created, closed>>
    /\ unchangedRecycler /\ unchangedCleanup
    /\ UNCHANGED <<storeVars, crawlVars>>

\* get_browser: `await self.available_browsers.get()` returned
GetBrowser(c) ==
    /\ cpc[c] = "getting" \/ (cpc[c] = "idle" /\ initialized)
    /\ available_browsers # <<>>
    /\ available_browsers' = QueueAfterGet(available_browsers)
    /\ in_use' = in_use \cup {Head(available_browsers)}
    /\ cbrowser' = [cbrowser EXCEPT ![c] = Head(available_browsers)]
    /\ cpc' = [cpc EXCEPT ![c] = "holding"]
    /\ UNCHANGED <<ci, initialized, playwright, cleanup_task, browser_creation_time,
                   now, created, closed, faults>>
    /\ unchangedRecycler /\ unchangedCleanup
    /\ UNCHANGED <<storeVars, crawlVars>>

\* return_browser(browser) by the caller that got browser from get_browser; a
\* browser that is not in in_use stays with the caller
ReturnBrowser(c) ==
    /\ cpc[c] = "holding"
    /\ IF IsInUse(cbrowser[c])
       THEN /\ in_use' = in_use \ {cbrowser[c]}
            /\ IF QueueFull
               THEN /\ cpc' = [cpc EXCEPT ![c] = "returning"]
                    /\ UNCHANGED <<available_browsers, cbrowser>>
               ELSE /\ available_browsers' = Append(available_browsers, cbrowser[c])
                    /\ cpc' = [cpc EXCEPT ![c] = "done"]
                    /\ cbrowser' = [cbrowser EXCEPT ![c] = NoBrowser]
       ELSE /\ cpc' = [cpc EXCEPT ![c] = "done"]
            /\ UNCHANGED <<cbrowser, in_use, available_browsers>>
    /\ UNCHANGED <<ci, initialized, playwright, cleanup_task, browser_creation_time,
                   now, created, closed, faults>>
    /\ unchangedRecycler /\ unchangedCleanup
    /\ UNCHANGED <<storeVars, crawlVars>>

\* return_browser: the blocked put went through
ReturnPut(c) ==
    /\ cpc[c] = "returning"
    /\ ~QueueFull
    /\ available_browsers' = Append(available_browsers, cbrowser[c])
    /\ cpc' = [cpc EXCEPT ![c] = "done"]
    /\ cbrowser' = [cbrowser EXCEPT ![c] = NoBrowser]
    /\ UNCHANGED <<ci, initialized, in_use, playwright, cleanup_task,
                   browser_creation_time, now, created, closed, faults>>
    /\ unchangedRecycler /\ unchangedCleanup
    /\ UNCHANGED <<storeVars, crawlVars>>

-----------------------------------------------------------------------------
\* _periodic_cleanup: "Return all browsers to pool"; put blocks on a full queue
RecyclerPutBack(t, keep) ==
    LET k == Min(Len(keep), pool_size - Len(available_browsers)) IN
    /\ available_browsers' = available_browsers \o SubSeq(keep, 1, k)
    /\ browsers_to_keep' = [browsers_to_keep EXCEPT ![t] = SubSeq(keep, k + 1, Len(keep))]
    /\ browsers_to_refresh' = [browsers_to_refresh EXCEPT ![t] = <<>>]
    /\ rpc' = [rpc EXCEPT ![t] = IF k = Len(keep) THEN "sleeping" ELSE "putting"]

\* _periodic_cleanup: the next browser of browsers_to_refresh, or the put-back loop
RecyclerContinue(t, todo, keep) ==
    IF todo # <<>>
    THEN /\ rpc' = [rpc EXCEPT ![t] = "closing"]
         /\ browsers_to_refresh' = [browsers_to_refresh EXCEPT ![t] = todo]
         /\ browsers_to_keep' = [browsers_to_keep EXCEPT ![t] = keep]
         /\ UNCHANGED available_browsers
    ELSE RecyclerPutBack(t, keep)

\* _periodic_cleanup: asyncio.sleep returned; the queue is drained and sorted into
\* browsers_to_refresh and browsers_to_keep without suspending
RecyclerWake(t) ==
    /\ rpc[t] = "sleeping"
    /\ \E d \in 0..1 : d <= MaxTicks - now /\ now' = now + d
    /\ LET all == available_browsers
           refresh == SelectSeq(all, LAMBDA b : ShouldRefresh(b, now'))
           keep == SelectSeq(all, LAMBDA b : ~ShouldRefresh(b, now'))
       IN  IF refresh = <<>>
           THEN UNCHANGED <<available_browsers, rpc, browsers_to_refresh,
                            browsers_to_keep>>
           ELSE /\ available_browsers' = <<>>
                /\ rpc' = [rpc EXCEPT ![t] = "closing"]
                /\ browsers_to_refresh' = [browsers_to_refresh EXCEPT ![t] = refresh]
                /\ browsers_to_keep' = [browsers_to_keep EXCEPT ![t] = keep]
    /\ UNCHANGED <<initialized, in_use, playwright, cleanup_task, browser_creation_time,
                   created, closed, faults>>
    /\ unchangedCallers /\ unchangedCleanup
    /\ UNCHANGED <<storeVars, crawlVars>>

\* _periodic_cleanup: `await browser.close()` returned
RecyclerClosed(t) ==
    /\ rpc[t] = "closing"
    /\ closed' = [closed EXCEPT ![Head(browsers_to_refresh[t])] = @ + 1]
    /\ rpc' = [rpc EXCEPT ![t] = "creating"]
    /\ UNCHANGED <<browsers_to_refresh, browsers_to_keep>>
    /\ unchangedPoolFields
    /\ UNCHANGED <<now, created, faults>>
    /\ unchangedCallers /\ unchangedCleanup
    /\ UNCHANGED <<storeVars, crawlVars>>

\* _periodic_cleanup: browser.close() raised: "Error refreshing browser", next one
RecyclerCloseFails(t) ==
    /\ rpc[t] = "closing"
    /\ MayFail
    /\ faults' = faults + 1
    /\ RecyclerContinue(t, Tail(browsers_to_refresh[t]), browsers_to_keep[t])
    /\ UNCHANGED <<initialized, in_use, playwright, cleanup_task, browser_creation_time,
                   now, created, closed>>
    /\ unchangedCallers /\ unchangedCleanup
    /\ UNCHANGED <<storeVars, crawlVars>>

\* _periodic_cleanup: _create_optimized_browser returned the replacement
RecyclerCreated(t) ==
    /\ rpc[t] = "creating"
    /\ CanLaunch
    /\ created' = created + 1
    /\ browser_creation_time' = [browser_creation_time EXCEPT ![created + 1] = now]
    /\ RecyclerContinue(t, Tail(browsers_to_refresh[t]),
                        Append(browsers_to_keep[t], created + 1))
    /\ UNCHANGED <<initialized, in_use, playwright, cleanup_task, now, closed, faults>>
    /\ unchangedCallers /\ unchangedCleanup
    /\ UNCHANGED <<storeVars, crawlVars>>

\* _periodic_cleanup: _create_optimized_browser raised: "Error refreshing browser"
RecyclerCreateFails(t) ==
    /\ rpc[t] = "creating"
    /\ \/ MayFail /\ faults' = faults + 1
       \/ playwright = "stopped" /\ UNCHANGED faults
    /\ RecyclerContinue(t, Tail(browsers_to_refresh[t]), browsers_to_keep[t])
    /\ UNCHANGED <<initialized, in_use, playwright, cleanup_task, browser_creation_time,
                   now, created, closed>>
    /\ unchangedCallers /\ unchangedCleanup
    /\ UNCHANGED <<storeVars, crawlVars>>

\* _periodic_cleanup: a blocked put of the put-back loop went through
RecyclerPut(t) ==
    /\ rpc[t] = "putting"
    /\ ~QueueFull
    /\ RecyclerPutBack(t, browsers_to_keep[t])
    /\ UNCHANGED <<initialized, in_use, playwright, cleanup_task, browser_creation_time,
                   now, created, closed, faults>>
    /\ unchangedCallers /\ unchangedCleanup
    /\ UNCHANGED <<storeVars, crawlVars>>

-----------------------------------------------------------------------------
\* browsers launched and not closed
Live == {b \in 1..created : closed[b] = 0}

\* cleanup: "Close browsers in pool", up to the next `await browser.close()`
CleanupDrain ==
    IF available_browsers # <<>>
    THEN /\ scur' = Head(available_browsers)
         /\ available_browsers' = Tail(available_browsers)
         /\ spc' = "closing_idle"
         /\ UNCHANGED playwright
    ELSE /\ scur' = NoBrowser
         /\ UNCHANGED available_browsers
         /\ IF playwright # "none"
            THEN spc' = "stopping" /\ UNCHANGED playwright
            ELSE spc' = "done" /\ UNCHANGED playwright

\* cleanup: the try block, from `self.in_use.copy()` to the first suspension
CleanupBody ==
    IF in_use # {}
    THEN /\ scopy' = in_use
         /\ spc' = "closing_in_use"
         /\ UNCHANGED <<in_use, available_browsers, scur, playwright>>
    ELSE /\ scopy' = {}
         /\ UNCHANGED in_use
         /\ CleanupDrain

\* cleanup() is called: the recycler task is cancelled, which ends it where it
\* is suspended, with whatever its local lists hold
CleanupStart ==
    /\ spc \in {"idle", "done"}
    /\ cleanup_calls < MaxCleanupCalls
    /\ cleanup_calls' = cleanup_calls + 1
    /\ sheld' = sheld \cup Live
    /\ IF cleanup_task # NoTask
       THEN /\ rpc' = [rpc EXCEPT ![cleanup_task] = "cancelled"]
            /\ spc' = "awaiting_task"
            /\ UNCHANGED <<scopy, scur, in_use, available_browsers, playwright>>
       ELSE /\ UNCHANGED rpc
            /\ CleanupBody
    /\ UNCHANGED <<browsers_to_refresh, browsers_to_keep>>
    /\ UNCHANGED <<initialized, cleanup_task, browser_creation_time, now, created,
                   closed, faults>>
    /\ unchangedCallers
    /\ UNCHANGED <<storeVars, crawlVars>>

\* cleanup: `await self.cleanup_task` raised CancelledError
CleanupTaskDone ==
    /\ spc = "awaiting_task"
    /\ CleanupBody
    /\ UNCHANGED <<cleanup_calls, sheld>>
    /\ UNCHANGED <<initialized, cleanup_task, browser_creation_time, now, created,
                   closed, faults>>
    /\ unchangedCallers /\ unchangedRecycler
    /\ UNCHANGED <<storeVars, crawlVars>>

\* cleanup: close() of an in-use browser returned (a set is iterated in any order)
CleanupClosedInUse(b) ==
    /\ spc = "closing_in_use"
    /\ b \in scopy
    /\ closed' = [closed EXCEPT ![b] = @ + 1]
    /\ scopy' = scopy \ {b}
    /\ IF scopy \ {b} = {}
       THEN /\ in_use' = {}
            /\ CleanupDrain
       ELSE UNCHANGED <<in_use, available_browsers, scur, spc, playwright>>
    /\ UNCHANGED <<cleanup_calls, sheld>>
    /\ UNCHANGED <<initialized, cleanup_task, browser_creation_time, now, created, faults>>
    /\ unchangedCallers /\ unchangedRecycler
    /\ UNCHANGED <<storeVars, crawlVars>>

\* cleanup: close() of a browser taken from the queue returned
CleanupClosedIdle ==
    /\ spc = "closing_idle"
    /\ closed' = [closed EXCEPT ![scur] = @ + 1]
    /\ CleanupDrain
    /\ UNCHANGED <<scopy, in_use, cleanup_calls, sheld>>
    /\ UNCHANGED <<initialized, cleanup_task, browser_creation_time, now, created, faults>>
    /\ unchangedCallers /\ unchangedRecycler
    /\ UNCHANGED <<storeVars, crawlVars>>

\* cleanup: a close() raised: "Error cleaning up ..." and cleanup returns
CleanupCloseFails ==
    /\ spc \in {"closing_in_use", "closing_idle"}
    /\ MayFail
    /\ faults' = faults + 1
    /\ spc' = "done"
    /\ scopy' = {}
    /\ scur' = NoBrowser
    /\ UNCHANGED <<cleanup_calls, sheld>>
    /\ unchangedPoolFields
    /\ UNCHANGED <<now, created, closed>>
    /\ unchangedCallers /\ unchangedRecycler
    /\ UNCHANGED <<storeVars, crawlVars>>

\* cleanup: `await self.playwright.stop()` returned
CleanupStopped ==
    /\ spc = "stopping"
    /\ playwright' = "stopped"
    /\ spc' = "done"
    /\ UNCHANGED <<scopy, scur, cleanup_calls, sheld>>
    /\ UNCHANGED <<initialized, available_browsers, in_use, cleanup_task,
                   browser_creation_time, now, created, closed, faults>>
    /\ unchangedCallers /\ unchangedRecycler
    /\ UNCHANGED <<storeVars, crawlVars>>

-----------------------------------------------------------------------------
InitPool == PoolInit /\ StoreIdle /\ CrawlIdle

NextPool ==
    \/ \E c \in Callers : CallGetBrowser(c)
    \/ \E c \in Callers : InitStarted(c)
    \/ \E c \in Callers : InitCreated(c)
    \/ \E c \in Callers : InitPut(c)
    \/ \E c \in Callers : InitCreateFails(c)
    \/ \E c \in Callers : GetBrowser(c)
    \/ \E c \in Callers : ReturnBrowser(c)
    \/ \E c \in Callers : ReturnPut(c)
    \/ \E t \in Callers : RecyclerWake(t)
    \/ \E t \in Callers : RecyclerClosed(t)
    \/ \E t \in Callers : RecyclerCloseFails(t)
    \/ \E t \in Callers : RecyclerCreated(t)
    \/ \E t \in Callers : RecyclerCreateFails(t)
    \/ \E t \in Callers : RecyclerPut(t)
    \/ CleanupStart
    \/ CleanupTaskDone
    \/ \E b \in Browsers : CleanupClosedInUse(b)
    \/ CleanupClosedIdle
    \/ CleanupCloseFails
    \/ CleanupStopped

SpecPool == InitPool /\ [][NextPool]_vars

-----------------------------------------------------------------------------
\* the browser a caller holds: returned to it by get_browser and not yet passed
\* to return_browser
Holds(c, b) == cpc[c] = "holding" /\ cbrowser[c] = b

\* the browsers a recycler task has taken from the queue
RecyclerHas(t) == SeqToSet(browsers_to_refresh[t]) \cup SeqToSet(browsers_to_keep[t])

\* C1: in every interleaving of get_browser, return_browser and recycler passes,
\* a browser held by one caller is held by no other caller, and is neither idle
\* in the queue nor in the hands of a recycler pass (from where it could be
\* handed out again).
C1_NoSessionHeldTwice ==
    \A c \in Callers :
        cpc[c] = "holding" =>
            /\ \A d \in Callers \ {c} : ~Holds(d, cbrowser[c])
            /\ cbrowser[c] \notin SeqToSet(available_browsers)
            /\ \A t \in Callers : rpc[t] # "cancelled" => cbrowser[c] \notin RecyclerHas(t)

\* two callers hold a browser each, after a recycler pass has closed a browser
C1_Witness ==
    /\ \A c \in Callers : cpc[c] = "holding"
    /\ \E b \in Browsers : closed[b] = 1
    /\ spc = "idle"

\* C2: the browsers idle in the queue plus those in use never number more than
\* pool_size.
C2_TotalWithinPoolSize ==
    Len(available_browsers) + Cardinality(in_use) <= pool_size

\* C3: once cleanup() has returned, every browser that existed when it was
\* called has been closed exactly once (stated for the executions in which no
\* call of the browser driver raises).
C3_ClosedExactlyOnce ==
    (spc = "done" /\ faults = 0) => \A b \in sheld : closed[b] = 1

\* C4: the step of a recycler pass that takes a browser it has closed off
\* browsers_to_refresh puts a replacement on browsers_to_keep or into the queue:
\* the number of browsers the pass holds or has put back does not change.
C4_RecycledSessionReplaced ==
    [][\A t \in Callers :
          (rpc[t] = "creating"
              /\ browsers_to_refresh'[t] # browsers_to_refresh[t])
          => Len(browsers_to_refresh'[t]) + Len(browsers_to_keep'[t])
                 + Len(available_browsers')
             = Len(browsers_to_refresh[t]) + Len(browsers_to_keep[t])
                 + Len(available_browsers)]_vars

(***************************************************************************)
(*                    The ledger: processed_urls                           *)
(*                                                                         *)
(* The supabase client is synchronous: a handler runs from its first store *)
(* call to its last without yielding to the event loop, so each handler is *)
(* one action.  Timestamps are Null or "set".                              *)
(***************************************************************************)

ErrorMessages == {"Extraction failed", "Database error"}

\* a processed_urls row as an insert without status columns leaves it
LedgerRow(id, site_name, url, vehicle_id) ==
    [id |-> id, site_name |-> site_name, url |-> url, vehicle_id |-> vehicle_id,
     processed |-> FALSE, processing_started |-> Null,
     processing_completed |-> Null, error_message |-> Null]

\* the entry with the id given
Entry(id) == CHOOSE p \in processed_urls : p.id = id

\* processed_urls.update(...).eq("id", id), row being the entry as updated
UpdateById(id, row) ==
    {IF p.id = id THEN row ELSE p : p \in processed_urls}

LedgerIds == {p.id : p \in processed_urls}

unchangedIngest ==
    UNCHANGED <<vehicles, staging_vehicles, store_faults, submitted, history,
                last_staged, write_failed, staging_failed, fetched>>

\* ContinuousAuctionExtractor.mark_processing_started([id])
MarkProcessingStarted(id) ==
    /\ id \in LedgerIds
    /\ processed_urls' = UpdateById(id,
           [Entry(id) EXCEPT !.processing_started = "set"])
    /\ UNCHANGED vehicle_details
    /\ unchangedIngest
    /\ UNCHANGED <<poolVars, crawlVars>>

\* update_data of mark_record_processed_concurrent and of _save_extracted_data
ProcessedUpdate(p) ==
    [p EXCEPT !.processed = TRUE, !.processing_completed = "set"]

\* update_data of mark_url_failed_concurrent and of mark_processing_failed
FailedUpdate(p, error_message) ==
    [p EXCEPT !.processed = FALSE, !.processing_completed = "set",
              !.error_message = error_message]

\* DatabaseHandler.mark_record_processed_concurrent(id)
MarkRecordProcessedConcurrent(id) ==
    /\ id \in LedgerIds
    /\ processed_urls' = UpdateById(id, ProcessedUpdate(Entry(id)))
    /\ UNCHANGED vehicle_details
    /\ unchangedIngest
    /\ UNCHANGED <<poolVars, crawlVars>>

\* DatabaseHandler.mark_url_failed_concurrent(id, error_message) and
\* ContinuousAuctionExtractor.mark_processing_failed(id, error_message)
MarkUrlFailedConcurrent(id, error_message) ==
    /\ id \in LedgerIds
    /\ processed_urls' = UpdateById(id,
           FailedUpdate(Entry(id), error_message))
    /\ UNCHANGED vehicle_details
    /\ unchangedIngest
    /\ UNCHANGED <<poolVars, crawlVars>>

\* DatabaseHandler.mark_url_processed(id, success, error_message); the message
\* is written only when one is given.  Taken with its defaults (success, no
\* message) or as a failure with a message.
MarkUrlProcessed(id, success, error_message) ==
    /\ id \in LedgerIds
    /\ processed_urls' = UpdateById(id,
           IF error_message # Null
           THEN [Entry(id) EXCEPT !.processed = success,
                                  !.processing_completed = "set",
                                  !.error_message = error_message]
           ELSE [Entry(id) EXCEPT !.processed = success,
                                  !.processing_completed = "set"])
    /\ UNCHANGED vehicle_details
    /\ unchangedIngest
    /\ UNCHANGED <<poolVars, crawlVars>>

\* ContinuousAuctionExtractor._save_extracted_data for the entry id: insert into
\* vehicle_details, then the processed update; if either raises, the entry is
\* marked failed with "Database error".  fault: the store call that raises.
SaveExtractedData(id, fault) ==
    /\ id \in LedgerIds
    /\ fault # "none" => store_faults < MaxStoreFaults
    /\ store_faults' = IF fault # "none" THEN store_faults + 1 ELSE store_faults
    /\ vehicle_details' = IF fault = "insert" THEN vehicle_details
                          ELSE vehicle_details \cup {id}
    /\ processed_urls' =
           IF fault = "none"
           THEN UpdateById(id, ProcessedUpdate(Entry(id)))
           ELSE UpdateById(id, FailedUpdate(Entry(id), "Database error"))
    /\ UNCHANGED <<vehicles, staging_vehicles, submitted, history, last_staged,
                   write_failed, staging_failed, fetched>>
    /\ UNCHANGED <<poolVars, crawlVars>>

UnprocessedNeverFailed ==
    {p \in processed_urls : ~p.processed /\ p.error_message = Null}

\* .eq("processed", False): the entries a fetch selects from
Unprocessed == {p \in processed_urls : ~p.processed}

\* .limit(limit) with no order given: the store returns any limit of the
\* entries selected, all of them when there are no more than limit
LimitedTo(limit, entries) ==
    {result \in SUBSET entries :
        Cardinality(result) = IF Cardinality(entries) < limit
                              THEN Cardinality(entries) ELSE limit}

\* DatabaseHandler.get_unprocessed_urls_concurrent(limit) and
\* AuctionDataExtractor.get_unprocessed_urls(limit), result being the rows
\* the store returns
GetUnprocessedUrls(limit, result) ==
    /\ result \in LimitedTo(limit, Unprocessed)
    /\ fetched' = [ids |-> {p.id : p \in result}, limit |-> limit,
                    turn |-> 1 - fetched.turn]
    /\ UNCHANGED <<vehicles, staging_vehicles, processed_urls, vehicle_details,
                   store_faults, submitted, history, last_staged, write_failed,
                   staging_failed>>
    /\ UNCHANGED <<poolVars, crawlVars>>

\* the url of the i-th entry: entries differ in their url
LedgerUrl(i) == IF i = 1 THEN "/a" ELSE "/b"

\* the ledger as ingestion leaves it: NumLedgerEntries entries awaiting enrichment
InitLedger ==
    /\ PoolInit
    /\ CrawlIdle
    /\ vehicles = {}
    /\ staging_vehicles = {}
    /\ processed_urls = {LedgerRow(i, "AutoPacific", LedgerUrl(i), i)
                            : i \in 1..NumLedgerEntries}
    /\ vehicle_details = {}
    /\ store_faults = 0
    /\ submitted = 0
    /\ history = [k \in Keys |-> <<>>]
    /\ last_staged = <<>>
    /\ write_failed = FALSE
    /\ staging_failed = FALSE
    /\ fetched = [ids |-> {}, limit |-> 0, turn |-> 0]

NextLedger ==
    \/ \E id \in 1..NumLedgerEntries : MarkProcessingStarted(id)
    \/ \E id \in 1..NumLedgerEntries : MarkRecordProcessedConcurrent(id)
    \/ \E id \in 1..NumLedgerEntries, m \in ErrorMessages :
           MarkUrlFailedConcurrent(id, m)
    \/ \E id \in 1..NumLedgerEntries : MarkUrlProcessed(id, TRUE, Null)
    \/ \E id \in 1..NumLedgerEntries, m \in ErrorMessages :
           MarkUrlProcessed(id, FALSE, m)
    \/ \E id \in 1..NumLedgerEntries, fault \in {"none", "insert", "update"} :
           SaveExtractedData(id, fault)
    \/ \E limit \in 1..NumLedgerEntries, result \in SUBSET processed_urls :
           GetUnprocessedUrls(limit, result)

SpecLedger == InitLedger /\ [][NextLedger]_vars

\* C5: a ledger entry with processed = true has its completion timestamp set
\* and a null error message.
C5_ProcessedHasNoError ==
    \A p \in processed_urls :
        p.processed => p.processing_completed # Null /\ p.error_message = Null

(***************************************************************************)
(*                    Ingestion of listings                                *)
(*                                                                         *)
(* A listing is [site_name, lot_number, price, lot_link]; price stands for *)
(* the columns an upsert overwrites, lot_link is NoLink when the listing   *)
(* has no detail link.  The tables carry the unique indexes the upserts    *)
(* name in on_conflict: vehicles (site_name, lot_number) and               *)
(* processed_urls (site_name, url).  A statement that would break one      *)
(* raises and changes nothing.                                             *)
(***************************************************************************)

\* the listings of the model: LinkListings are the lots with every link at one
\* price, PriceListings the lots of one site at every price
LinkListings ==
    [site_name : Sites, lot_number : 1..MaxLot, price : {100},
     lot_link : Links \cup {NoLink}]

PriceListings ==
    [site_name : {"AutoPacific"}, lot_number : 1..MaxLot, price : Prices,
     lot_link : {"/a"}]

\* the batches one site's search hands to a handler, with what is left of
\* MaxListings
Batches(listings) ==
    {b \in UNION {[1..n -> listings] : n \in 1..MaxBatchLen} :
        /\ \A i \in 1..Len(b) : b[i].site_name = b[1].site_name
        /\ Len(b) <= MaxListings - submitted}

\* key = (listing.get('site_name'), listing.get('lot_number'))
ListingKey(l) == <<l.site_name, l.lot_number>>

\* the batch as it came, every listing of a key kept
WithRepeatedKeys(listings, seen) == listings

\* "Deduplicate listings by site_name and lot_number": the first listing of each
\* key, in the order of the batch
RECURSIVE Deduplicate(_, _)
Deduplicate(listings, seen) ==
    IF listings = <<>> THEN <<>>
    ELSE IF ListingKey(Head(listings)) \in seen
         THEN Deduplicate(Tail(listings), seen)
         ELSE <<Head(listings)>>
                  \o Deduplicate(Tail(listings), seen \cup {ListingKey(Head(listings))})

\* a conflict key that tells apart rows of one lot by their link
VehiclesKeyWithLink(r) == <<r.site_name, r.lot_number, r.lot_link>>

\* on_conflict="site_name,lot_number"
VehiclesKey(r) == <<r.site_name, r.lot_number>>

\* a conflict key that tells apart entries of one url by their vehicle
ProcessedUrlsKeyWithVehicle(r) == <<r.site_name, r.url, r.vehicle_id>>

\* on_conflict="site_name,url"
ProcessedUrlsKey(r) == <<r.site_name, r.url>>

\* the id a serial column gives the next row of a table
NextId(table) ==
    IF table = {} THEN 1
    ELSE 1 + (CHOOSE m \in {r.id : r \in table} : \A r \in table : r.id <= m)

\* the rows of a table in the order of their ids
RECURSIVE SortById(_)
SortById(table) ==
    IF table = {} THEN <<>>
    ELSE LET first == CHOOSE r \in table : \A q \in table : r.id <= q.id
         IN  <<first>> \o SortById(table \ {first})

VehicleRow(id, r) ==
    [id |-> id, site_name |-> r.site_name, lot_number |-> r.lot_number,
     price |-> r.price, lot_link |-> r.lot_link]

\* an insert where the upsert is
InsertVehicle(table, r) == table \cup {VehicleRow(NextId(table), r)}

\* an upsert that leaves a row it finds as it is (ignore_duplicates)
UpsertVehicleIgnoringDuplicates(table, r) ==
    IF \E v \in table : VehiclesKey(v) = VehiclesKey(r)
    THEN table
    ELSE table \cup {VehicleRow(NextId(table), r)}

\* vehicles.upsert(r, on_conflict="site_name,lot_number")
UpsertVehicle(table, r) ==
    IF \E v \in table : VehiclesKey(v) = VehiclesKey(r)
    THEN {IF VehiclesKey(v) = VehiclesKey(r) THEN VehicleRow(v.id, r) ELSE v
             : v \in table}
    ELSE table \cup {VehicleRow(NextId(table), r)}

RECURSIVE UpsertVehicles(_, _)
UpsertVehicles(table, rows) ==
    IF rows = <<>> THEN table
    ELSE UpsertVehicles(UpsertVehicle(table, Head(rows)), Tail(rows))

\* an upsert of rows that hit one conflict key twice raises ("ON CONFLICT DO
\* UPDATE command cannot affect row a second time")
HasDuplicateKeys(rows) ==
    \E i, j \in 1..Len(rows) : i < j /\ VehiclesKey(rows[i]) = VehiclesKey(rows[j])

\* the unique index of processed_urls
UniqueUrls(table) ==
    \A p, q \in table : ProcessedUrlsKey(p) = ProcessedUrlsKey(q) => p.id = q.id

\* processed_urls.upsert(url_record, on_conflict="site_name,url"): the columns
\* of url_record are written, the others are left (or get their defaults)
UpsertUrl(table, site_name, url, vehicle_id) ==
    LET r == LedgerRow(NextId(table), site_name, url, vehicle_id) IN
    IF \E p \in table : ProcessedUrlsKey(p) = ProcessedUrlsKey(r)
    THEN {IF ProcessedUrlsKey(p) = ProcessedUrlsKey(r)
          THEN [p EXCEPT !.site_name = site_name, !.url = url,
                         !.vehicle_id = vehicle_id, !.processed = FALSE]
          ELSE p : p \in table}
    ELSE table \cup {r}

-----------------------------------------------------------------------------
\* the store call of a handler that raises for a reason outside the data: call
\* names the table written, at the iteration or the batch it happens in
NoFault == [at |-> 0, call |-> "none"]

\* bulk_insert_staging_concurrent(site_name, listings): one insert of a row per
\* deduplicated listing, each under the site_name of the call
RECURSIVE InsertStaging(_, _, _)
InsertStaging(table, site_name, listings) ==
    IF listings = <<>> THEN table
    ELSE InsertStaging(
             table \cup {[id |-> NextId(table), site_name |-> site_name,
                          lot_number |-> Head(listings).lot_number,
                          price |-> Head(listings).price,
                          lot_link |-> Head(listings).lot_link,
                          processed |-> FALSE]},
             site_name, Tail(listings))

\* process_staging_to_main: the loop over the batches of staging_records, from
\* batch number n on; st = [vehicles, staging_vehicles, failed]
RECURSIVE StagingToMainLoop(_, _, _, _)
StagingToMainLoop(st, staging_records, n, fault) ==
    IF staging_records = <<>> THEN st
    ELSE LET len == Min(batch_size, Len(staging_records))
             batch == SubSeq(staging_records, 1, len)
             staging_ids == {batch[i].id : i \in 1..len}
             upsert_raises == HasDuplicateKeys(batch)
                                 \/ (fault.at = n /\ fault.call = "vehicles")
             mark_raises == fault.at = n /\ fault.call = "staging_vehicles"
             after ==
                 [vehicles |-> IF upsert_raises THEN st.vehicles
                               ELSE UpsertVehicles(st.vehicles, batch),
                  staging_vehicles |->
                      IF upsert_raises \/ mark_raises THEN st.staging_vehicles
                      ELSE {IF r.id \in staging_ids
                            THEN [r EXCEPT !.processed = TRUE] ELSE r
                               : r \in st.staging_vehicles},
                  failed |-> st.failed \/ upsert_raises \/ mark_raises]
         IN  StagingToMainLoop(after,
                 SubSeq(staging_records, len + 1, Len(staging_records)), n + 1, fault)

\* process_staging_to_main on the tables given
StagingToMain(vehicles_table, staging_table, fault) ==
    StagingToMainLoop(
        [vehicles |-> vehicles_table, staging_vehicles |-> staging_table,
         failed |-> FALSE],
        SortById({r \in staging_table : ~r.processed}), 1, fault)

\* the number of batches process_staging_to_main makes of n records
NumBatches(n) == (n + batch_size - 1) \div batch_size

\* the prices of the listings of a batch that have key k, in order
PricesOf(listings, k) ==
    LET of_k == SelectSeq(listings, LAMBDA l : ListingKey(l) = k)
    IN  [i \in 1..Len(of_k) |-> of_k[i].price]

\* the handlers are given MaxListings listings in all
Receive(listings) ==
    /\ submitted + Len(listings) <= MaxListings
    /\ submitted' = submitted + Len(listings)

Submit(listings) ==
    /\ Receive(listings)
    /\ history' = [k \in Keys |->
                      IF PricesOf(listings, k) = <<>> THEN history[k]
                      ELSE Append(history[k], PricesOf(listings, k))]

UseFault(fault) ==
    store_faults' = IF fault # NoFault THEN store_faults + 1 ELSE store_faults

\* DirectDatabaseHandler.bulk_upsert_vehicles_direct(listings): the listings are
\* deduplicated and staged, then process_staging_to_main runs (a batch of the
\* model is shorter than the 1000 listings of one round of its loop)
BulkUpsertVehiclesDirect(listings, fault) ==
    LET deduplicated_listings == Deduplicate(listings, {})
        staged == IF fault.call = "staging_insert" THEN staging_vehicles
                  ELSE InsertStaging(staging_vehicles,
                                     deduplicated_listings[1].site_name,
                                     Deduplicate(deduplicated_listings, {}))
        unprocessed == Cardinality({r \in staged : ~r.processed})
        r == StagingToMain(vehicles, staged, fault)
    IN  /\ Submit(listings)
        /\ UseFault(fault)
        /\ \/ fault = NoFault
           \/ fault.call = "staging_insert" /\ fault.at = 0
           \/ /\ fault.call \in {"vehicles", "staging_vehicles"}
              /\ fault.at \in 1..NumBatches(unprocessed)
        /\ vehicles' = r.vehicles
        /\ staging_vehicles' = r.staging_vehicles
        /\ last_staged' = IF r.failed \/ fault # NoFault THEN <<>> ELSE listings
        /\ write_failed' = (write_failed \/ r.failed \/ fault # NoFault)
        /\ staging_failed' = (staging_failed \/ fault.call = "staging_insert")
        /\ UNCHANGED fetched
        /\ UNCHANGED <<processed_urls, vehicle_details>>
        /\ UNCHANGED <<poolVars, crawlVars>>

\* DatabaseHandler.process_staging_to_main(), called on its own
ProcessStagingToMain(fault) ==
    LET unprocessed == Cardinality({r \in staging_vehicles : ~r.processed})
        r == StagingToMain(vehicles, staging_vehicles, fault)
    IN  /\ unprocessed > 0
        /\ UseFault(fault)
        /\ \/ fault = NoFault
           \/ /\ fault.call \in {"vehicles", "staging_vehicles"}
              /\ fault.at \in 1..NumBatches(unprocessed)
        /\ vehicles' = r.vehicles
        /\ staging_vehicles' = r.staging_vehicles
        /\ last_staged' = <<>>
        /\ write_failed' = (write_failed \/ r.failed)
        /\ UNCHANGED <<staging_failed, fetched>>
        /\ UNCHANGED <<processed_urls, vehicle_details, submitted, history>>
        /\ UNCHANGED <<poolVars, crawlVars>>

-----------------------------------------------------------------------------
\* bulk_upsert_vehicles_truly_direct: one round of the loop over the
\* deduplicated listings; st = [vehicles, processed_urls, failed], call is the
\* store call of this round that raises ("none" if none does).  The select by
\* vehicle_id has no order: existing_url is taken to be the entry of least id.
TrulyDirectOne(st, listing, call) ==
    IF call = "vehicles" THEN [st EXCEPT !.failed = TRUE]
    ELSE LET upserted == UpsertVehicle(st.vehicles, listing)
             vehicle == CHOOSE v \in upserted : VehiclesKey(v) = VehiclesKey(listing)
             existing == {p \in st.processed_urls : p.vehicle_id = vehicle.id}
             existing_url == CHOOSE p \in existing : \A q \in existing : p.id <= q.id
             written ==
                 IF vehicle.lot_link = NoLink THEN st.processed_urls
                 ELSE IF existing # {}
                      THEN IF existing_url.url # vehicle.lot_link
                           THEN {IF p.vehicle_id = vehicle.id
                                 THEN [p EXCEPT !.url = vehicle.lot_link,
                                                !.processed = FALSE]
                                 ELSE p : p \in st.processed_urls}
                           ELSE st.processed_urls
                      ELSE UpsertUrl(st.processed_urls, vehicle.site_name,
                                     vehicle.lot_link, vehicle.id)
             raises == call = "processed_urls" \/ ~UniqueUrls(written)
         IN  [vehicles |-> upserted,
              processed_urls |-> IF raises THEN st.processed_urls ELSE written,
              failed |-> st.failed \/ raises]

RECURSIVE TrulyDirectLoop(_, _, _, _)
TrulyDirectLoop(st, listings, i, fault) ==
    IF i > Len(listings) THEN st
    ELSE TrulyDirectLoop(
             TrulyDirectOne(st, listings[i],
                            IF fault.at = i THEN fault.call ELSE "none"),
             listings, i + 1, fault)

\* TrulyDirectDatabaseHandler.bulk_upsert_vehicles_truly_direct(listings)
BulkUpsertVehiclesTrulyDirect(listings, fault) ==
    LET deduplicated_listings == Deduplicate(listings, {})
        r == TrulyDirectLoop([vehicles |-> vehicles,
                              processed_urls |-> processed_urls,
                              failed |-> FALSE],
                             deduplicated_listings, 1, fault)
    IN  /\ Submit(listings)
        /\ UseFault(fault)
        /\ \/ fault = NoFault
           \/ /\ fault.at \in 1..Len(deduplicated_listings)
              /\ \/ fault.call = "vehicles"
                 \/ /\ fault.call = "processed_urls"
                    /\ deduplicated_listings[fault.at].lot_link # NoLink
        /\ vehicles' = r.vehicles
        /\ processed_urls' = r.processed_urls
        /\ last_staged' = <<>>
        /\ write_failed' = (write_failed \/ fault.call = "vehicles")
        /\ UNCHANGED <<staging_failed, fetched>>
        /\ UNCHANGED <<staging_vehicles, vehicle_details>>
        /\ UNCHANGED <<poolVars, crawlVars>>

\* DatabaseHandler.populate_processed_urls(): an entry for every vehicle whose
\* (site_name, lot_link) is not in processed_urls yet, in one insert
PopulateProcessedUrls(fault) ==
    LET existing_urls == {<<p.site_name, p.url>> : p \in processed_urls}
        new_vehicles == SortById({v \in vehicles :
                            /\ v.lot_link # NoLink
                            /\ <<v.site_name, v.lot_link>> \notin existing_urls})
        first_id == NextId(processed_urls)
        new_urls == {LedgerRow(first_id + i - 1, new_vehicles[i].site_name,
                               new_vehicles[i].lot_link, new_vehicles[i].id)
                        : i \in 1..Len(new_vehicles)}
        raises == fault # NoFault \/ ~UniqueUrls(processed_urls \cup new_urls)
    IN  /\ new_vehicles # <<>>
        /\ UseFault(fault)
        /\ fault = NoFault \/ (fault.call = "processed_urls" /\ fault.at = 0)
        /\ processed_urls' = IF raises THEN processed_urls
                             ELSE processed_urls \cup new_urls
        /\ last_staged' = <<>>
        /\ UNCHANGED <<vehicles, staging_vehicles, vehicle_details, submitted,
                       history, write_failed, staging_failed, fetched>>
        /\ UNCHANGED <<poolVars, crawlVars>>

\* _populate_processed_urls_direct: the (site_name, lot_link) of the listings,
\* the first of each, as sequences of pairs in the order of the batch
RECURSIVE UniqueUrlsOf(_, _)
UniqueUrlsOf(listings, seen) ==
    IF listings = <<>> THEN <<>>
    ELSE LET l == Head(listings)
             key == <<l.site_name, l.lot_link>>
         IN  IF l.lot_link = NoLink \/ key \in seen
             THEN UniqueUrlsOf(Tail(listings), seen)
             ELSE <<key>> \o UniqueUrlsOf(Tail(listings), seen \cup {key})

\* _populate_processed_urls_direct: the upsert of one url_record; vehicle_id is
\* part of the record only if a vehicle with this link was found, of which the
\* one of least id stands for data[0]
UpsertUrlRecord(table, site_name, url) ==
    LET found == {v \in vehicles : v.site_name = site_name /\ v.lot_link = url}
        r == LedgerRow(NextId(table), site_name, url,
                 IF found = {} THEN NoVehicle
                 ELSE (CHOOSE v \in found : \A w \in found : v.id <= w.id).id)
    IN  IF \E p \in table : ProcessedUrlsKey(p) = ProcessedUrlsKey(r)
        THEN {IF ProcessedUrlsKey(p) = ProcessedUrlsKey(r)
              THEN [p EXCEPT !.processed = FALSE,
                             !.vehicle_id = IF found = {} THEN @ ELSE r.vehicle_id]
              ELSE p : p \in table}
        ELSE table \cup {r}

RECURSIVE UpsertUrlRecords(_, _)
UpsertUrlRecords(table, urls) ==
    IF urls = <<>> THEN table
    ELSE UpsertUrlRecords(UpsertUrlRecord(table, Head(urls)[1], Head(urls)[2]),
                          Tail(urls))

\* TrulyDirectDatabaseHandler._populate_processed_urls_direct(listings)
PopulateProcessedUrlsDirect(listings, fault) ==
    LET deduplicated_urls == UniqueUrlsOf(listings, {})
        written == UpsertUrlRecords(processed_urls, deduplicated_urls)
        raises == fault # NoFault \/ ~UniqueUrls(written)
    IN  /\ deduplicated_urls # <<>>
        /\ Receive(listings)
        /\ UseFault(fault)
        /\ fault = NoFault \/ (fault.call = "processed_urls" /\ fault.at = 0)
        /\ processed_urls' = IF raises THEN processed_urls ELSE written
        /\ last_staged' = <<>>
        /\ UNCHANGED <<vehicles, staging_vehicles, vehicle_details, history,
                       write_failed, staging_failed, fetched>>
        /\ UNCHANGED <<poolVars, crawlVars>>

\* the faults a handler may meet
Faults ==
    {NoFault, [at |-> 0, call |-> "staging_insert"], [at |-> 0, call |-> "processed_urls"]}
        \cup [at : 1..MaxBatchLen, call : {"vehicles", "staging_vehicles", "processed_urls"}]

\* the faults that fit into what is left of max failing store calls
FaultsLeft(max) == IF store_faults < max THEN Faults ELSE {NoFault}

InitIngest == PoolInit /\ StoreIdle /\ CrawlIdle

NextIngest ==
    \/ \E listings \in Batches(LinkListings), fault \in FaultsLeft(MaxStoreFaults) :
           BulkUpsertVehiclesDirect(listings, fault)
    \/ \E listings \in Batches(LinkListings), fault \in FaultsLeft(MaxStoreFaults) :
           BulkUpsertVehiclesTrulyDirect(listings, fault)
    \/ \E fault \in FaultsLeft(MaxStoreFaults) : ProcessStagingToMain(fault)
    \/ \E fault \in FaultsLeft(MaxStoreFaults) : PopulateProcessedUrls(fault)
    \/ \E listings \in Batches(LinkListings), fault \in FaultsLeft(MaxStoreFaults) :
           PopulateProcessedUrlsDirect(listings, fault)

SpecIngest == InitIngest /\ [][NextIngest]_vars

\* the same handlers on listings that differ in price
NextResubmit ==
    \/ \E listings \in Batches(PriceListings), fault \in FaultsLeft(MaxResubmitFaults) :
           BulkUpsertVehiclesDirect(listings, fault)
    \/ \E listings \in Batches(PriceListings), fault \in FaultsLeft(MaxResubmitFaults) :
           BulkUpsertVehiclesTrulyDirect(listings, fault)
    \/ \E fault \in FaultsLeft(MaxResubmitFaults) : ProcessStagingToMain(fault)

SpecResubmit == InitIngest /\ [][NextResubmit]_vars

\* the strict handler and the direct population of the ledger on a store whose
\* entries the enrichment pass marks processed between the runs
NextReingest ==
    \/ \E listings \in Batches(LinkListings), fault \in FaultsLeft(MaxStoreFaults) :
           BulkUpsertVehiclesTrulyDirect(listings, fault)
    \/ \E listings \in Batches(LinkListings), fault \in FaultsLeft(MaxStoreFaults) :
           PopulateProcessedUrlsDirect(listings, fault)
    \/ \E id \in LedgerIds : MarkRecordProcessedConcurrent(id)

SpecReingest == InitIngest /\ [][NextReingest]_vars

-----------------------------------------------------------------------------
\* the rows of vehicles with the key k
RowsOf(k) == {v \in vehicles : v.site_name = k[1] /\ v.lot_number = k[2]}

\* the entries of processed_urls for a site and a url
EntriesOf(site_name, url) ==
    {p \in processed_urls : p.site_name = site_name /\ p.url = url}

\* C6: after any sequence of staged and strict ingests, with or without failing
\* store calls, vehicles holds at most one row per (site_name, lot_number).
C6_OneRowPerKey ==
    \A k \in Keys : Cardinality(RowsOf(k)) <= 1

\* a lot staged and merged twice with different links, next to a row of
\* another lot
C6_Witness ==
    \E k \in Keys :
        /\ Len(history[k]) = 2
        /\ RowsOf(k) # {}
        /\ \E r, q \in staging_vehicles :
               /\ r.processed /\ q.processed
               /\ <<r.site_name, r.lot_number>> = k
               /\ <<q.site_name, q.lot_number>> = k
               /\ r.lot_link # q.lot_link
        /\ \E j \in Keys \ {k} : RowsOf(j) # {}

C8_OneEntryPerLinkedRow ==
    staging_vehicles = {} =>
        /\ \A v \in vehicles :
               v.lot_link # NoLink =>
                   Cardinality({p \in processed_urls : p.vehicle_id = v.id}) = 1
        /\ \A p \in processed_urls :
               Cardinality({v \in vehicles :
                               v.site_name = p.site_name /\ v.lot_link = p.url}) <= 1

\* C9: a staged run of the batch of the staged run before it, neither raising,
\* leaves vehicles as it was, with exactly one row per key of the batch.
C9_SecondRunChangesNothing ==
    [][(last_staged # <<>> /\ last_staged' = last_staged /\ submitted' # submitted)
          => /\ vehicles' = vehicles
             /\ \A i \in 1..Len(last_staged) :
                    Cardinality({v \in vehicles' :
                        /\ v.site_name = last_staged[i].site_name
                        /\ v.lot_number = last_staged[i].lot_number}) = 1]_vars

\* a batch has been staged and merged twice, and nothing else was handed in
C9_Witness ==
    /\ last_staged # <<>>
    /\ submitted = 2 * Len(last_staged)
    /\ \E r, q \in staging_vehicles :
           /\ r.id # q.id
           /\ r.processed /\ q.processed
           /\ r.lot_number = last_staged[1].lot_number
           /\ q.lot_number = last_staged[1].lot_number
           /\ r.price = last_staged[1].price
           /\ q.price = last_staged[1].price

\* three calls have handed in one listing each of the key k, at three prices
ThreeInSequence(k) ==
    /\ Len(history[k]) = 3
    /\ \A i \in 1..3 : Len(history[k][i]) = 1
    /\ \A i, j \in 1..3 : i # j => history[k][i] # history[k][j]

\* C10: after three listings of one key with three prices were handed in one
\* after the other, and no write to vehicles or staging_vehicles raised,
\* vehicles holds exactly one row of the key, with the price of the last.
C10_LastPriceWins ==
    \A k \in Keys :
        (ThreeInSequence(k) /\ ~write_failed)
            => /\ Cardinality(RowsOf(k)) = 1
               /\ \A v \in RowsOf(k) : v.price = history[k][3][1]

\* the three listings went in through the staged and through the strict handler
C10_Witness ==
    \E k \in Keys :
        /\ ThreeInSequence(k)
        /\ ~write_failed
        /\ Cardinality({r \in staging_vehicles : r.processed}) \in 1..2

\* C11: a strict run in which no store call raises for a reason outside the
\* data, and which changes the link of a row that has a ledger entry with
\* another url, leaves the row with an entry that has the new link as its url
\* and processed = false.  (A step that writes vehicles and leaves
\* staging_vehicles as it is is a run of the strict handler.)
C11_LinkChangeResetsEntry ==
    [][\A v \in vehicles, w \in vehicles', e \in processed_urls :
          (/\ staging_vehicles' = staging_vehicles
           /\ store_faults' = 0
           /\ w.id = v.id
           /\ w.lot_link # v.lot_link
           /\ w.lot_link # NoLink
           /\ e.vehicle_id = v.id
           /\ e.url # w.lot_link)
          => \E f \in processed_urls' :
                 f.vehicle_id = w.id /\ f.url = w.lot_link /\ ~f.processed]_vars

\* the keys of the batch a step hands in, and the listings of the batch that
\* the step leaves without their row in vehicles (the listing of a key is the
\* first of the key in the batch)
KeysHandedIn == {k \in Keys : history'[k] # history[k]}

NotUpserted ==
    {k \in KeysHandedIn :
        ~\E v \in vehicles' :
            /\ v.site_name = k[1]
            /\ v.lot_number = k[2]
            /\ v.price = history'[k][Len(history'[k])][1]}

\* a step in which a handler was given a batch and one store call raised, other
\* than the insert into staging_vehicles
OneWriteFailed ==
    /\ KeysHandedIn # {}
    /\ store_faults' = store_faults + 1
    /\ staging_failed' = staging_failed

\* C12: when one store call of an ingestion run raises (the staging insert
\* aside), at most one listing of the batch is left without its row: every
\* other listing is upserted.
C12_OnlyFailedListingSkipped ==
    [][OneWriteFailed => Cardinality(NotUpserted) <= 1]_vars

\* processed_count of process_staging_to_main, which bulk_upsert_vehicles_direct
\* returns: the staging rows a step marks processed (the count is added right
\* after the update that marks them)
ProcessedCount ==
    Cardinality({r \in staging_vehicles' : r.processed})
        - Cardinality({r \in staging_vehicles : r.processed})

\* C13: a staged run whose insert into staging_vehicles raises returns 0.
C13_StagingFailureReportsZero ==
    [][(staging_failed' /\ ~staging_failed) => ProcessedCount = 0]_vars

\* an entry whose attempt failed, with no success recorded since
Failed(p) == ~p.processed /\ p.error_message # Null

Streams ==
    [pages : 0..MaxShortStream, last : LastRows, short : 0..MaxShortRows,
     others : SUBSET OtherAnchors]
    \cup [pages : MaxPages..MaxStreamPages, last : {PageRows}, short : {0},
          others : {{}, {OtherAnchor}}]

\* document.querySelectorAll('#mainTable tr[id^="cell_"]').length
Rows(s, i) ==
    IF i < 1 \/ i > s.pages THEN 0
    ELSE IF i = s.pages THEN s.last ELSE PageRows

\* the rows of the page that reach page_results: a row with fewer than 15
\* cells is passed over
PageResults(s, i) == Rows(s, i) - s.short

\* the page numbers the pager of page i links
Pager(s, i) == IF i < 1 \/ i > s.pages THEN {} ELSE (1..s.pages) \ {i}

\* document.querySelectorAll('a'), as the numbers parseInt reads from them
Anchors(s, i) == IF i < 1 \/ i > s.pages THEN {} ELSE Pager(s, i) \cup s.others

\* next_page_exists: some anchor shows a number greater than currentPage
NextPageExists(anchors, currentPage) == \E a \in anchors : a > currentPage

\* next_clicked: some anchor has exactly the text currentPage + 1
NextClicked(anchors, currentPage) == (currentPage + 1) \in anchors

\* what the anchor clicked can be: the pager's link or another anchor with
\* the same text, whichever comes first in the document
ClickTargets(s, i, text) ==
    {t \in {"pager", "other"} :
        \/ t = "pager" /\ text \in Pager(s, i)
        \/ t = "other" /\ text \in s.others}

KeepLastPage(results, page_results) == page_results

\* all_results.extend(page_results), as a number of rows
Extend(results, page_results) == results + page_results

PageLimitNever(n) == FALSE

\* if page_num > 50
PageLimitReached(n) == n > MaxPages

unchangedOutsidePage ==
    /\ UNCHANGED <<poolVars, storeVars>>
    /\ UNCHANGED <<sessionVars, siteVars, toolVars>>

\* one iteration of the while loop.  target: the anchor the click reaches;
\* load: whether the page loads within its timeouts
ProcessPage(target, load) ==
    /\ stop = "none"
    /\ UNCHANGED <<stream, extraction>>
    /\ unchangedOutsidePage
    /\ IF Rows(stream, shown) = 0
       THEN /\ target = "none" /\ load = "none"
            /\ stop' = "no_rows"
            /\ UNCHANGED <<shown, page_num, all_results, requested, pages_read, pages_seen,
                           page_faults>>
       ELSE /\ all_results' = Extend(all_results, PageResults(stream, shown))
            /\ pages_read' = pages_read + 1
            /\ pages_seen' = pages_seen \cup {shown}
            /\ IF ~NextPageExists(Anchors(stream, shown), page_num)
               THEN /\ target = "none" /\ load = "none"
                    /\ stop' = "no_next"
                    /\ UNCHANGED <<shown, page_num, requested, page_faults>>
               ELSE IF ~NextClicked(Anchors(stream, shown), page_num)
               THEN /\ target = "none" /\ load = "none"
                    /\ stop' = "not_clicked"
                    /\ UNCHANGED <<shown, page_num, requested, page_faults>>
               ELSE /\ target \in ClickTargets(stream, shown, page_num + 1)
                    /\ load \in {"ok", "timeout"}
                    /\ requested' = requested + 1
                    /\ shown' = IF target = "pager" THEN page_num + 1 ELSE 0
                    /\ IF load = "timeout"
                       THEN /\ page_faults < MaxPageFaults
                            /\ page_faults' = page_faults + 1
                            /\ stop' = "load_timeout"
                            /\ UNCHANGED page_num
                       ELSE /\ page_num' = page_num + 1
                            /\ stop' = IF PageLimitReached(page_num + 1)
                                       THEN "page_limit" ELSE "none"
                            /\ UNCHANGED page_faults

\* a call on the page raises: the except of the function returns all_results
PageRaises ==
    /\ stop = "none"
    /\ page_faults < MaxPageFaults
    /\ page_faults' = page_faults + 1
    /\ stop' = "raised"
    /\ UNCHANGED <<stream, extraction, shown, page_num, all_results, requested,
                   pages_read, pages_seen>>
    /\ unchangedOutsidePage

\* process_site_session calls the function again on the page as the call made
\* by fill_search_form_with_filters left it
ExtractAgain ==
    /\ stop # "none"
    /\ extraction = 1
    /\ extraction' = 2
    /\ page_num' = 1
    /\ all_results' = 0
    /\ requested' = 0
    /\ pages_read' = 0
    /\ pages_seen' = {}
    /\ stop' = "none"
    /\ UNCHANGED <<stream, shown, page_faults>>
    /\ unchangedOutsidePage

(***************************************************************************)
(*     Workers of a site: process_site_workload_parallel and               *)
(*     process_site_session                                                *)
(*                                                                         *)
(* The tasks of the site are 1..workload.  Each worker has its own browser *)
(* and its own shard; the workers share nothing in this module, so a task  *)
(* of the for loop is one action.  What the site does to a task is the     *)
(* input of the action.                                                    *)
(***************************************************************************)

Tasks == 1..workload

\* the items i, i + 1, ... of the workload
ContiguousFrom(i, n) == [k \in 1..(n - i + 1) |-> i + k - 1]

RECURSIVE ShardFrom(_, _)
\* the items i, i + num_sessions, ... of the workload
ShardFrom(i, n) ==
    IF i > n THEN <<>> ELSE <<i>> \o ShardFrom(i + num_sessions, n)

\* sessions[session_index] of distribute_workload_round_robin
Shard(s) == ShardFrom(s, workload)

\* should_log, i counting the items of the shard from 0
ShouldLog(i) == (i + 1) % LogEvery = 0 \/ i = 0

\* what can happen to a task: rows found; make or model not among the
\* options; the search button never clicked; the execution context destroyed
\* under fill_search_form_with_filters, which catches it in every attempt and
\* returns False; any other exception that reaches the handler of the task.
\* No task raises an exception with "Execution context was destroyed" or
\* "Timeout" in its text into that handler: fill_search_form_with_filters and
\* extract_sales_data_from_results catch every Exception of the page, and the
\* saves run in try blocks of their own, so the outcome "critical_error" that
\* ProcessTask translates from the handler is one no input produces
TaskOutcomes ==
    {"found", "no_match", "search_failed", "context_destroyed", "other_error"}

\* on a session whose execution context is gone every call on the page raises
OutcomesOn(s) ==
    IF unusable[s] THEN {"context_destroyed"}
    ELSE TaskOutcomes

unchangedOutsideSession ==
    /\ UNCHANGED <<poolVars, storeVars>>
    /\ UNCHANGED <<pageVars, siteVars, toolVars>>

\* process_site_session up to the for loop: launch, login
StartSession(s, outcome) ==
    /\ session_pc[s] = "idle"
    /\ Shard(s) # <<>>
    /\ launched' = [launched EXCEPT ![s] = @ + 1]
    /\ logins' = [logins EXCEPT ![s] = IF outcome = "launch_error" THEN @ ELSE @ + 1]
    /\ session_pc' = [session_pc EXCEPT ![s] = IF outcome = "ok" THEN "tasks" ELSE "done"]
    /\ item' = [item EXCEPT ![s] = 1]
    /\ login_failed' = IF outcome = "login_failed" THEN login_failed \cup {s}
                       ELSE login_failed
    /\ UNCHANGED <<workload, task_result, recorded, unusable, search_attempts,
                   attempts, site_done>>
    /\ unchangedOutsideSession

\* the attempts fill_search_form_with_filters makes before it returns
SearchAttempts(outcome) ==
    IF outcome \in {"search_failed", "context_destroyed"} THEN max_retries ELSE 1

\* whether the failure of the task leaves a record in the log, which is
\* written at level INFO: debug_msgs is dropped and logger.debug is not written
Recorded(outcome, i) ==
    \/ outcome \in {"critical_error", "other_error"}
    \/ outcome \in {"no_match", "search_failed", "context_destroyed"} /\ ShouldLog(i)

\* a loop that any task that did not find rows ends
LeavesOnFailure(s, outcome) == outcome # "found" \/ item[s] = Len(Shard(s))

\* the pass is the last of the loop: the `break` of the handler of the task,
\* or the end of the shard
LeavesLoop(s, outcome) == outcome = "critical_error" \/ item[s] = Len(Shard(s))

\* one pass of the for loop of process_site_session, with the return after
\* the loop when the pass is the last
ProcessTask(s, outcome) ==
    /\ session_pc[s] = "tasks"
    /\ outcome \in OutcomesOn(s)
    /\ LET t == Shard(s)[item[s]]
       IN /\ task_result' = [task_result EXCEPT ![t] = outcome]
          /\ attempts' = [attempts EXCEPT ![t] = @ + 1]
          /\ search_attempts' = [search_attempts EXCEPT ![t] = SearchAttempts(outcome)]
          /\ recorded' = IF Recorded(outcome, item[s] - 1)
                         THEN recorded \cup {t} ELSE recorded
    /\ unusable' = [unusable EXCEPT ![s] =
                       @ \/ outcome \in {"context_destroyed", "critical_error"}]
    /\ IF LeavesLoop(s, outcome)
       THEN /\ session_pc' = [session_pc EXCEPT ![s] = "done"]
            /\ UNCHANGED item
       ELSE /\ item' = [item EXCEPT ![s] = @ + 1]
            /\ UNCHANGED session_pc
    /\ UNCHANGED <<workload, launched, logins, login_failed, site_done>>
    /\ unchangedOutsideSession

\* process_site_workload_parallel after gather: the summary of the site
Aggregate ==
    /\ ~site_done
    /\ \A s \in Sessions : Shard(s) # <<>> => session_pc[s] = "done"
    /\ site_done' = TRUE
    /\ UNCHANGED <<workload, session_pc, item, task_result, recorded, launched,
                   logins, login_failed, unusable, search_attempts, attempts>>
    /\ unchangedOutsideSession

InitSession ==
    /\ PoolInit
    /\ StoreIdle
    /\ SitesIdle
    /\ ToolsIdle
    /\ stream = NoStream
    /\ PageIdle
    /\ workload \in 1..MaxWorkload
    /\ SessionIdle

NextSession ==
    \/ \E s \in Sessions, outcome \in {"ok", "login_failed", "launch_error"} :
           StartSession(s, outcome)
    \/ \E s \in Sessions, outcome \in TaskOutcomes : ProcessTask(s, outcome)
    \/ Aggregate

SpecSession == InitSession /\ [][NextSession]_vars /\ WF_vars(NextSession)
InitPaginate ==
    /\ PoolInit
    /\ StoreIdle
    /\ SitesIdle
    /\ ToolsIdle
    /\ workload = 0
    /\ SessionIdle
    /\ stream \in Streams
    /\ PageIdle

NextPaginate ==
    \/ \E target \in {"none", "pager", "other"}, load \in {"none", "ok", "timeout"} :
           ProcessPage(target, load)
    \/ PageRaises
    \/ ExtractAgain

SpecPaginate ==
    InitPaginate /\ [][NextPaginate]_vars /\ WF_vars(NextPaginate)

(***************************************************************************)
(*     The run over all sites: process_all_sites_simply and                *)
(*     _process_single_site (get_data.py)                                  *)
(*                                                                         *)
(* SimplifiedSiteProcessor.initialize awaits browser_pool.initialize       *)
(* before process_all_sites_simply is called, so the run starts on an      *)
(* initialized pool of pool_size browsers.  One coroutine per site runs    *)
(* under asyncio.gather(return_exceptions=True).  The run can be cancelled *)
(* at any point: gather passes the cancellation to every coroutine that    *)
(* has not returned, CancelledError is raised at the await the coroutine   *)
(* is suspended in, is not an Exception and is caught by no handler of     *)
(* _process_single_site, and its finally block runs.  gather raises in the *)
(* caller only when every coroutine has ended, and the finally of the main *)
(* coroutine calls cleanup.  The recycler of the pool takes browsers from  *)
(* the queue only and is not part of this specification.                   *)
(***************************************************************************)

unchangedOutsideSites ==
    /\ UNCHANGED <<initialized, cleanup_task, browser_creation_time, now, created,
                   faults, cpc, cbrowser, ci, browsers_to_refresh, browsers_to_keep,
                   spc, scopy, scur, cleanup_calls, sheld>>
    /\ UNCHANGED <<storeVars, pageVars, sessionVars, toolVars>>

unchangedPoolOfSites == UNCHANGED <<available_browsers, in_use, playwright, closed, rpc>>

\* get_browser: self.in_use.add(browser)
InUseWithoutAdd(b) == in_use

InUseAfterAdd(b) == in_use \cup {b}

\* the for loop over searches after a search that raised or not
AfterSearchLeavingOnError(i, raised) == IF raised THEN NumSearches + 1 ELSE i + 1

AfterSearch(i, raised) == i + 1

\* the sum process_all_sites_simply makes of the results that are ints
RECURSIVE SumOfInts(_, _)
SumOfInts(r, n) ==
    IF n = 0 THEN 0
    ELSE SumOfInts(r, n - 1) + (IF r[n] >= 0 THEN r[n] ELSE 0)

\* _process_single_site: `browser = await self.browser_pool.get_browser()`
\* returned; the coroutine waits while the queue is empty
SiteGetBrowser(x) ==
    /\ run_pc = "running" /\ ~cancel_requested
    /\ site_pc[x] = "idle"
    /\ available_browsers # <<>>
    /\ LET b == Head(available_browsers)
       IN /\ available_browsers' = QueueAfterGet(available_browsers)
          /\ in_use' = InUseAfterAdd(b)
          /\ site_browser' = [site_browser EXCEPT ![x] = b]
          /\ acquired' = acquired \cup {b}
    /\ site_pc' = [site_pc EXCEPT ![x] = "acquired"]
    /\ UNCHANGED <<run_pc, cancel_requested, grand_total, search_item, searched,
                   search_errors, total_listings, site_results, logged_in, released>>
    /\ UNCHANGED <<playwright, closed, rpc>>
    /\ unchangedOutsideSites

\* the finally block of _process_single_site: return_browser(browser), whose
\* put does not suspend while the queue has room
ReturnSiteBrowser(x) ==
    /\ site_browser' = [site_browser EXCEPT ![x] = NoBrowser]
    /\ IF site_browser[x] # NoBrowser /\ site_browser[x] \in in_use
       THEN /\ ~QueueFull
            /\ in_use' = in_use \ {site_browser[x]}
            /\ available_browsers' = Append(available_browsers, site_browser[x])
            /\ released' = released \cup {site_browser[x]}
       ELSE UNCHANGED <<in_use, available_browsers, released>>

\* new_context, new_page and _login_to_site.  outcome: "ok"; "login_failed",
\* the login returned False and the coroutine returns 0; "error", a call
\* raised and the outer handler returns 0
SiteLogin(x, outcome) ==
    /\ run_pc = "running" /\ ~cancel_requested
    /\ site_pc[x] = "acquired"
    /\ IF outcome = "ok"
       THEN /\ site_pc' = [site_pc EXCEPT ![x] = "searches"]
            /\ logged_in' = logged_in \cup {x}
            /\ UNCHANGED <<site_results, site_browser, in_use, available_browsers,
                           released>>
       ELSE /\ site_pc' = [site_pc EXCEPT ![x] = "done"]
            /\ site_results' = [site_results EXCEPT ![x] = 0]
            /\ ReturnSiteBrowser(x)
            /\ UNCHANGED logged_in
    /\ UNCHANGED <<run_pc, cancel_requested, grand_total, search_item, searched,
                   search_errors, total_listings, acquired>>
    /\ UNCHANGED <<playwright, closed, rpc>>
    /\ unchangedOutsideSites

\* one pass of the for loop over searches: respect_rate_limit,
\* search_with_retry and, when there are listings, the save.  raised: a call
\* of the pass raised an Exception, which the handler of the pass logs
ProcessSearch(x, raised, saved) ==
    /\ run_pc = "running" /\ ~cancel_requested
    /\ site_pc[x] = "searches"
    /\ search_item[x] <= NumSearches
    /\ raised => saved = 0
    /\ searched' = [searched EXCEPT ![x] = @ \cup {search_item[x]}]
    /\ search_errors' = [search_errors EXCEPT ![x] =
                            IF raised THEN @ \cup {search_item[x]} ELSE @]
    /\ total_listings' = [total_listings EXCEPT ![x] = @ + saved]
    /\ search_item' = [search_item EXCEPT ![x] = AfterSearch(@, raised)]
    /\ UNCHANGED <<run_pc, cancel_requested, grand_total, site_pc, site_browser,
                   site_results, logged_in, acquired, released>>
    /\ unchangedPoolOfSites
    /\ unchangedOutsideSites

\* after the loop: context.close() returned, `return total_listings` and the
\* finally block; or context.close() raised and the outer handler returns 0
SiteClose(x, raised) ==
    /\ run_pc = "running" /\ ~cancel_requested
    /\ site_pc[x] = "searches"
    /\ search_item[x] > NumSearches
    /\ site_pc' = [site_pc EXCEPT ![x] = "done"]
    /\ site_results' = [site_results EXCEPT ![x] =
                           IF raised THEN 0 ELSE total_listings[x]]
    /\ ReturnSiteBrowser(x)
    /\ UNCHANGED <<run_pc, cancel_requested, grand_total, search_item, searched,
                   search_errors, total_listings, logged_in, acquired>>
    /\ UNCHANGED <<playwright, closed, rpc>>
    /\ unchangedOutsideSites

\* the task of the run is cancelled
Cancel ==
    /\ run_pc = "running" /\ ~cancel_requested
    /\ cancel_requested' = TRUE
    /\ UNCHANGED <<run_pc, grand_total, site_pc, site_browser, search_item, searched,
                   search_errors, total_listings, site_results, logged_in, acquired,
                   released>>
    /\ unchangedPoolOfSites
    /\ unchangedOutsideSites

\* CancelledError is raised in a coroutine that has not returned: no handler
\* catches it and the finally block runs
SiteCancelled(x) ==
    /\ run_pc = "running" /\ cancel_requested
    /\ site_pc[x] # "done"
    /\ site_pc' = [site_pc EXCEPT ![x] = "done"]
    /\ site_results' = [site_results EXCEPT ![x] = CancelledResult]
    /\ ReturnSiteBrowser(x)
    /\ UNCHANGED <<run_pc, cancel_requested, grand_total, search_item, searched,
                   search_errors, total_listings, logged_in, acquired>>
    /\ UNCHANGED <<playwright, closed, rpc>>
    /\ unchangedOutsideSites

\* gather returns when every coroutine has returned: the results are summed;
\* on a cancelled run it raises CancelledError in process_all_sites_simply
\* instead.  Either way the finally of the main coroutine is next
Gather ==
    /\ run_pc = "running"
    /\ \A x \in CrawlSites : site_pc[x] = "done"
    /\ grand_total' = IF cancel_requested THEN grand_total
                      ELSE SumOfInts(site_results, NumSites)
    /\ run_pc' = "cleanup"
    /\ UNCHANGED <<cancel_requested, site_pc, site_browser, search_item, searched,
                   search_errors, total_listings, site_results, logged_in, acquired,
                   released>>
    /\ unchangedPoolOfSites
    /\ unchangedOutsideSites

\* processor.cleanup(): MemoryOptimizedBrowserPool.cleanup cancels the
\* recycler, closes the browsers in use and in the queue and stops playwright
RunCleanup ==
    /\ run_pc = "cleanup"
    /\ run_pc' = "exited"
    /\ closed' = [b \in Browsers |->
                     IF b \in in_use \cup SeqToSet(available_browsers)
                     THEN closed[b] + 1 ELSE closed[b]]
    /\ in_use' = {}
    /\ available_browsers' = <<>>
    /\ playwright' = "stopped"
    /\ rpc' = [rpc EXCEPT ![cleanup_task] = "cancelled"]
    /\ UNCHANGED <<cancel_requested, grand_total, site_pc, site_browser, search_item,
                   searched, search_errors, total_listings, site_results, logged_in,
                   acquired, released>>
    /\ unchangedOutsideSites

\* the state initialize leaves: pool_size browsers in the queue, the recycler
\* asleep
InitSites ==
    /\ initialized = TRUE
    /\ available_browsers = [b \in 1..pool_size |-> b]
    /\ in_use = {}
    /\ playwright = "started"
    /\ cleanup_task = 1
    /\ browser_creation_time = [b \in Browsers |-> IF b <= pool_size THEN 0 ELSE NoTime]
    /\ now = 0
    /\ created = pool_size
    /\ closed = [b \in Browsers |-> 0]
    /\ faults = 0
    /\ cpc = [c \in Callers |-> "idle"]
    /\ cbrowser = [c \in Callers |-> NoBrowser]
    /\ ci = [c \in Callers |-> 0]
    /\ rpc = [t \in Callers |-> IF t = 1 THEN "sleeping" ELSE "none"]
    /\ browsers_to_refresh = [t \in Callers |-> <<>>]
    /\ browsers_to_keep = [t \in Callers |-> <<>>]
    /\ spc = "idle"
    /\ scopy = {}
    /\ scur = NoBrowser
    /\ cleanup_calls = 0
    /\ sheld = {}
    /\ StoreIdle
    /\ CrawlIdle

NextSites ==
    \/ \E x \in CrawlSites : SiteGetBrowser(x)
    \/ \E x \in CrawlSites, outcome \in {"ok", "login_failed", "error"} :
           SiteLogin(x, outcome)
    \/ \E x \in CrawlSites, raised \in BOOLEAN, saved \in 0..MaxSaved :
           ProcessSearch(x, raised, saved)
    \/ \E x \in CrawlSites, raised \in BOOLEAN : SiteClose(x, raised)
    \/ Cancel
    \/ \E x \in CrawlSites : SiteCancelled(x)
    \/ Gather
    \/ RunCleanup

\* every coroutine of the event loop gets its turn, and so does the main one
SpecSites == InitSites /\ [][NextSites]_vars /\ WF_vars(NextSites)

(***************************************************************************)
(*     AdaptiveRateLimiter (get_inventory_data.py)                         *)
(*                                                                         *)
(* Delays are kept in microseconds and the products with 1.5, 0.9 and 1.2  *)
(* are rounded down to a microsecond; latencies are in milliseconds.  A    *)
(* limiter belongs to one context and its calls follow one another, so a   *)
(* call with its sleep is one action.                                      *)
(***************************************************************************)

MaxHistory == 10
ResetAfter == 10
MinSamples == 3
LowThreshold == 1000
HighThreshold == 3000
MaxCalls == 6

\* response_time: none given (or 0, which `if response_time:` takes for none),
\* a fast and a slow answer
NoLatency == 0
FastLatency == 500
SlowLatency == 4000
Latencies == {NoLatency, FastLatency, SlowLatency}

Max(a, b) == IF a > b THEN a ELSE b

RECURSIVE SumSeq(_)
SumSeq(q) == IF q = <<>> THEN 0 ELSE Head(q) + SumSeq(Tail(q))

\* deque(maxlen=10).append
AppendBounded(q, v) ==
    IF Len(q) >= MaxHistory THEN Append(Tail(q), v) ELSE Append(q, v)

\* self.response_times after "Update metrics"
TimesAfter(response_time) ==
    IF response_time # NoLatency THEN AppendBounded(response_times, response_time)
    ELSE response_times

\* the delay after an error
IncreasedUncapped(delay) == (delay * 3) \div 2

Increased(delay) == Min((delay * 3) \div 2, max_delay)

\* the delay after a success, with the history as the call has updated it:
\* avg_response_time < 1.0 is sum < 1.0 * len
Adapted(delay, times) ==
    IF Len(times) >= MinSamples
    THEN IF SumSeq(times) < LowThreshold * Len(times) /\ error_count = 0
         THEN Max((delay * 9) \div 10, min_delay)
         ELSE IF SumSeq(times) > HighThreshold * Len(times)
              THEN Min((delay * 6) \div 5, max_delay)
              ELSE delay
    ELSE delay

\* the delay the call sleeps for: the call adjusts current_delay first and
\* sleeps last
SleptDelay(before, after) == after

\* a success whose observed latency is below the low threshold
FastSuccess(response_time, had_error) ==
    ~had_error /\ response_time # NoLatency /\ response_time < LowThreshold

unchangedOutsideLimiter ==
    UNCHANGED <<poolVars, storeVars, pageVars, sessionVars, siteVars, matchVars,
                parseVars, readVars, helperVars>>

\* wait_and_adapt(response_time, had_error)
WaitAndAdapt(response_time, had_error) ==
    /\ calls < MaxCalls
    /\ calls' = calls + 1
    /\ delay_at_call' = current_delay
    /\ response_times' = TimesAfter(response_time)
    /\ current_delay' = IF had_error THEN Increased(current_delay)
                        ELSE Adapted(current_delay, TimesAfter(response_time))
    /\ LET errors == IF had_error THEN error_count + 1 ELSE error_count
           successes == IF had_error THEN success_count ELSE success_count + 1
       IN IF successes > ResetAfter
          THEN error_count' = 0 /\ success_count' = 0
          ELSE error_count' = errors /\ success_count' = successes
    /\ slept' = SleptDelay(current_delay, current_delay')
    /\ IF had_error
       THEN /\ error_streak' = error_streak + 1
            /\ error_from' = IF error_streak = 0 THEN current_delay ELSE error_from
       ELSE /\ error_streak' = 0
            /\ UNCHANGED error_from
    /\ IF FastSuccess(response_time, had_error)
       THEN /\ fast_streak' = fast_streak + 1
            /\ fast_from' = IF fast_streak = 0 THEN current_delay ELSE fast_from
       ELSE /\ fast_streak' = 0
            /\ UNCHANGED fast_from
    /\ UNCHANGED <<min_delay, max_delay>>
    /\ unchangedOutsideLimiter

\* a limiter of one of the configurations; success_count is that of a new
\* limiter or of one that has served nine successes without a latency, as
\* the callers of the program make them
InitLimiter ==
    /\ PoolInit
    /\ StoreIdle
    /\ stream = NoStream
    /\ PageIdle
    /\ workload = 0
    /\ SessionIdle
    /\ SitesIdle
    /\ \E config \in LimiterConfigs : LimiterWith(config)
    /\ success_count \in {0, ResetAfter - 1}
    /\ MatchIdle
    /\ ParseIdle
    /\ matching = {}
    /\ ReadIdle
    /\ HelpersIdle

NextLimiter ==
    \E response_time \in Latencies, had_error \in BOOLEAN :
        WaitAndAdapt(response_time, had_error)

SpecLimiter == InitLimiter /\ [][NextLimiter]_vars

(***************************************************************************)
(*     The resolver: extract_base_name, calculate_match_score and          *)
(*     find_best_match (get_sales_data.py; get_inventory_data.py and       *)
(*     test_inventory.py hold the same code under the names                *)
(*     extract_base_model_name, calculate_model_match_score and            *)
(*     find_best_model_match_smart)                                        *)
(*                                                                         *)
(* A text is the sequence of its characters.                               *)
(***************************************************************************)

MaxOptions == 3

\* the options of test_model_matching
AccordCount ==
    <<"A", "C", "C", "O", "R", "D", " ", "(", "2", "6", "7", "5", "5", "6",
      ")">>
AccordPhev ==
    <<"A", "C", "C", "O", "R", "D", " ", "P", "H", "E", "V", " ", "(", "1",
      ")">>
AccordHybrid ==
    <<"A", "C", "C", "O", "R", "D", " ", "H", "Y", "B", "R", "I", "D", " ",
      "(", "4", "5", ")">>
\* further option texts: a second count, another model, a longer word, a
\* word before, a longer word around, lower case
AccordFew == <<"A", "C", "C", "O", "R", "D", " ", "(", "1", ")">>
CivicCount == <<"C", "I", "V", "I", "C", " ", "(", "5", ")">>
Accords == <<"A", "C", "C", "O", "R", "D", "S">>
NewAccord ==
    <<"N", "E", "W", " ", "A", "C", "C", "O", "R", "D", " ", "(", "2", ")">>
Xaccord == <<"X", "A", "C", "C", "O", "R", "D">>
AccordLower == <<"A", "c", "c", "o", "r", "d">>
\* the search terms of test_model_matching, one no option has, and one in
\* lower case with a space before
Accord == <<"A", "C", "C", "O", "R", "D">>
AccordPhevTerm == <<"A", "C", "C", "O", "R", "D", " ", "P", "H", "E", "V">>
Civic == <<"C", "I", "V", "I", "C">>
Fit == <<"F", "I", "T">>
AccordTyped == <<" ", "a", "c", "c", "o", "r", "d">>

OptionTexts ==
    {AccordCount, AccordPhev, AccordHybrid, AccordFew, CivicCount, Accords,
     NewAccord, Xaccord, AccordLower}

SearchTerms == {Accord, AccordPhevTerm, Civic, Fit, AccordTyped}

\* str.upper on the characters in use
Upper(ch) ==
    CASE ch = "a" -> "A" [] ch = "c" -> "C" [] ch = "o" -> "O"
      [] ch = "r" -> "R" [] ch = "d" -> "D" [] OTHER -> ch

UpperText(t) == [i \in 1..Len(t) |-> Upper(t[i])]

\* \s and \w on the characters in use
IsSpace(ch) == ch = " "

IsWord(ch) == ch \notin {" ", "(", ")", "-"}

RECURSIVE StripLeft(_)
StripLeft(t) == IF t # <<>> /\ IsSpace(Head(t)) THEN StripLeft(Tail(t)) ELSE t

RECURSIVE StripRight(_)
StripRight(t) ==
    IF t # <<>> /\ IsSpace(t[Len(t)]) THEN StripRight(SubSeq(t, 1, Len(t) - 1))
    ELSE t

\* str.strip
Strip(t) == StripRight(StripLeft(t))

\* the place of the first ")" after the first character of t, 0 if none
FirstClosing(t) ==
    IF \E k \in 2..Len(t) : t[k] = ")"
    THEN CHOOSE k \in 2..Len(t) : t[k] = ")" /\ \A l \in 2..(k - 1) : t[l] # ")"
    ELSE 0

\* re.sub(r'\s*\([^)]*\)', '', t): from left to right, a run of spaces
\* followed by "(" and the text up to the next ")" is dropped
RECURSIVE WithoutParens(_)
WithoutParens(t) ==
    IF t = <<>> THEN <<>>
    ELSE LET u == StripLeft(t)
         IN IF u # <<>> /\ Head(u) = "(" /\ FirstClosing(u) > 0
            THEN WithoutParens(SubSeq(u, FirstClosing(u) + 1, Len(u)))
            ELSE <<Head(t)>> \o WithoutParens(Tail(t))

\* extract_base_name
ExtractBaseName(option_text) == Strip(WithoutParens(option_text))

\* `part in t`
Contains(t, part) ==
    \E o \in 0..(Len(t) - Len(part)) : SubSeq(t, o + 1, o + Len(part)) = part

\* t.startswith(part)
StartsWith(t, part) == Len(part) <= Len(t) /\ SubSeq(t, 1, Len(part)) = part

\* len(t.split())
WordCount(t) ==
    Cardinality({i \in 1..Len(t) : ~IsSpace(t[i]) /\ (i = 1 \/ IsSpace(t[i - 1]))})

WordCharAt(t, i) == i >= 1 /\ i <= Len(t) /\ IsWord(t[i])

\* \b between the characters p and p + 1 of t
BoundaryAt(t, p) == WordCharAt(t, p) # WordCharAt(t, p + 1)

\* re.search(r'\b' + re.escape(part) + r'\b', t)
SearchWord(t, part) ==
    \E o \in 0..(Len(t) - Len(part)) :
        /\ SubSeq(t, o + 1, o + Len(part)) = part
        /\ BoundaryAt(t, o)
        /\ BoundaryAt(t, o + Len(part))

\* calculate_match_score, the score alone
CalculateMatchScore(term, option_text) ==
    LET search_upper == Strip(UpperText(term))
        base_name == Strip(UpperText(ExtractBaseName(option_text)))
    IN IF search_upper = base_name THEN 100
       ELSE IF /\ Contains(base_name, search_upper)
               /\ StartsWith(base_name, search_upper)
               /\ WordCount(base_name) = WordCount(search_upper)
       THEN 95
       ELSE IF SearchWord(base_name, search_upper)
       THEN IF WordCount(base_name) = WordCount(search_upper) THEN 90
            ELSE IF WordCount(base_name) = WordCount(search_upper) + 1 THEN 85
            ELSE 80
       ELSE IF StartsWith(base_name, search_upper) THEN 75
       ELSE IF Contains(base_name, search_upper) THEN 70
       ELSE 0

\* `if score > 0`: the options that enter scored_matches
IsMatchOrZero(score) == score >= 0

IsMatch(score) == score > 0

\* len(x['text'])
TextLengthIgnored(option_text) == 0

TextLength(option_text) == Len(option_text)

\* the sort key (-score, len(text)) of one entry below that of another
PrecedesByLength(a, b) == a.len < b.len

Precedes(a, b) == a.score > b.score \/ (a.score = b.score /\ a.len < b.len)

\* the entry of scored_matches for option i
Scored(term, opts, i) ==
    [score |-> CalculateMatchScore(term, opts[i]), len |-> TextLength(opts[i])]

\* find_best_match: the first of scored_matches after the stable sort
FindBestMatch(term, opts) ==
    LET matches == {i \in 1..Len(opts) : IsMatch(Scored(term, opts, i).score)}
    IN IF opts = <<>> THEN [value |-> NoValue, info |-> "no_options"]
       ELSE IF matches = {} THEN [value |-> NoValue, info |-> "no_matches_found"]
       ELSE [value |-> CHOOSE i \in matches : \A j \in matches \ {i} :
                           IF j < i
                           THEN Precedes(Scored(term, opts, i), Scored(term, opts, j))
                           ELSE ~Precedes(Scored(term, opts, j), Scored(term, opts, i)),
             info |-> "match"]

unchangedOutsideMatch ==
    UNCHANGED <<poolVars, storeVars, pageVars, sessionVars, siteVars, limiterVars,
                parseVars, readVars, helperVars>>

\* the call find_best_match(search_term, options)
Resolve ==
    /\ best_match = NotCalled
    /\ best_match' = FindBestMatch(search_term, options)
    /\ UNCHANGED <<search_term, options>>
    /\ unchangedOutsideMatch

\* the lists of at most n option texts
OptionLists(n) == UNION {[1..k -> OptionTexts] : k \in 0..n}

InitMatch ==
    /\ PoolInit
    /\ StoreIdle
    /\ stream = NoStream
    /\ PageIdle
    /\ workload = 0
    /\ SessionIdle
    /\ SitesIdle
    /\ LimiterIdle
    /\ search_term \in SearchTerms
    /\ options \in OptionLists(MaxOptions)
    /\ best_match = NotCalled
    /\ ParseIdle
    /\ matching = {}
    /\ ReadIdle
    /\ HelpersIdle

NextMatch == Resolve

SpecMatch == InitMatch /\ [][NextMatch]_vars

(***************************************************************************)
(*     The parsers of numeric fields: DataStandardizer.parse_numeric       *)
(*     (standardizer.py), SearchOptimizer._extract_number (get_data.py)    *)
(*     and _parse_numeric (get_details.py)                                 *)
(***************************************************************************)

MaxValueLen == 4

\* the characters of the short texts: two digits, the decimal point, the
\* thousands separator, a space, a letter and a dash
ValueChars == {"1", "5", ".", ",", " ", "k", "-"}

\* the texts of the examples
Mileage == <<"1", "2", ",", "3", "4", "5", " ", "k", "m">>
Dashes == <<"-", " ", "-", " ", "-">>
DashesTight == <<"-", "-", "-">>

ValueTexts ==
    UNION {[1..k -> ValueChars] : k \in 0..MaxValueLen}
    \cup {Mileage, Dashes, DashesTight}

\* str.isdigit on the characters in use
IsDigit(ch) == ch \in {"0", "1", "2", "3", "4", "5", "6", "7", "8", "9"}

DigitValue(ch) ==
    CASE ch = "0" -> 0 [] ch = "1" -> 1 [] ch = "2" -> 2 [] ch = "3" -> 3
      [] ch = "4" -> 4 [] ch = "5" -> 5 [] ch = "6" -> 6 [] ch = "7" -> 7
      [] ch = "8" -> 8 [] ch = "9" -> 9

\* ''.join(c for c in t if keep(c)), for the characters of a set
RECURSIVE Keep(_, _)
Keep(t, chars) ==
    IF t = <<>> THEN <<>>
    ELSE IF Head(t) \in chars THEN <<Head(t)>> \o Keep(Tail(t), chars)
    ELSE Keep(Tail(t), chars)

\* the characters of t, all of which are of one set
CharsOf(t) == {t[i] : i \in 1..Len(t)}

\* cleaned.replace(',', '')
RECURSIVE WithoutCommas(_)
WithoutCommas(t) ==
    IF t = <<>> THEN <<>>
    ELSE IF Head(t) = "," THEN WithoutCommas(Tail(t))
    ELSE <<Head(t)>> \o WithoutCommas(Tail(t))

\* cleaned.split('.')[0]
RECURSIVE BeforePoint(_)
BeforePoint(t) ==
    IF t = <<>> \/ Head(t) = "." THEN <<>>
    ELSE <<Head(t)>> \o BeforePoint(Tail(t))

\* int(cleaned) on a text of digits
RECURSIVE IntOf(_)
IntOf(digits) ==
    IF digits = <<>> THEN 0
    ELSE 10 * IntOf(SubSeq(digits, 1, Len(digits) - 1)) + DigitValue(digits[Len(digits)])

\* the digits of a text, in their order
DigitsOf(t) == Keep(t, {ch \in CharsOf(t) : IsDigit(ch)})

\* DataStandardizer.parse_numeric: digits, points and commas are kept, the
\* commas dropped, and the text cut at the first point
ParseNumeric(t) ==
    IF t = <<>> THEN 0
    ELSE LET kept == Keep(t, {ch \in CharsOf(t) : IsDigit(ch) \/ ch \in {".", ","}})
             cleaned == BeforePoint(WithoutCommas(kept))
         IN IF cleaned # <<>> THEN IntOf(cleaned) ELSE 0

\* SearchOptimizer._extract_number: the same after two special cases
ExtractNumber(t) ==
    IF t = <<>> THEN 0
    ELSE IF t = Dashes \/ t = DashesTight THEN 0
    ELSE ParseNumeric(t)

\* _parse_numeric of get_details.py: the digits alone
ParseNumericOfDetails(t) ==
    IF t = <<>> THEN 0
    ELSE IF DigitsOf(t) # <<>> THEN IntOf(DigitsOf(t)) ELSE 0

unchangedOutsideParse ==
    UNCHANGED <<poolVars, storeVars, pageVars, sessionVars, siteVars, limiterVars,
                matchVars, readVars, helperVars>>

\* a call of one of the parsers on the text
CallParser(name) ==
    /\ parser = "none"
    /\ parser' = name
    /\ parsed' = CASE name = "parse_numeric" -> ParseNumeric(value_str)
                   [] name = "_extract_number" -> ExtractNumber(value_str)
                   [] name = "_parse_numeric" -> ParseNumericOfDetails(value_str)
    /\ UNCHANGED value_str
    /\ unchangedOutsideParse

InitParse ==
    /\ PoolInit
    /\ StoreIdle
    /\ stream = NoStream
    /\ PageIdle
    /\ workload = 0
    /\ SessionIdle
    /\ SitesIdle
    /\ LimiterIdle
    /\ MatchIdle
    /\ value_str \in ValueTexts
    /\ parser = "none"
    /\ parsed = 0
    /\ matching = {}
    /\ ReadIdle
    /\ HelpersIdle

NextParse ==
    \E name \in {"parse_numeric", "_extract_number", "_parse_numeric"} :
        CallParser(name)

SpecParse == InitParse /\ [][NextParse]_vars

(***************************************************************************)
(*     Reads of whole tables (get_details.py, db.py)                       *)
(*                                                                         *)
(* The store answers a request with at most a page of rows, 1000 in the    *)
(* deployment the code is written for ("Supabase default limit"); the      *)
(* model scales the page and the window of get_url_pool, which is that     *)
(* same number, down to MaxRows.  The table does not change during a read. *)
(***************************************************************************)

NumReadRows == 5
MaxRows == 2

\* the place of a row among the rows in the order of their ids, from 0
PlaceOf(rows, id) == Cardinality({r \in rows : r < id})

\* the answer of the store to .order("id").range(first, last) on the rows
\* the filter matches
RangeResponse(rows, first, last) ==
    {r \in rows : PlaceOf(rows, r) >= first
                  /\ PlaceOf(rows, r) <= Min(last, first + MaxRows - 1)}

\* the answers the store can give to a request without order and range:
\* a page of the rows
PlainResponses(rows) ==
    {page \in SUBSET rows : Cardinality(page) = Min(MaxRows, Cardinality(rows))}

unchangedOutsideRead ==
    UNCHANGED <<poolVars, storeVars, pageVars, sessionVars, siteVars, limiterVars,
                matchVars, parseVars, helperVars>>

\* get_url_pool: one pass of the while loop that fetches the unprocessed
\* entries, with the window `limit` = MaxRows
GetUrlPoolWindow ==
    /\ reader \in {"none", "get_url_pool"}
    /\ ~read_done
    /\ reader' = "get_url_pool"
    /\ requests' = requests + 1
    /\ LET data == RangeResponse(matching, read_offset, read_offset + MaxRows - 1)
       IN IF data = {}
          THEN /\ read_done' = TRUE
               /\ UNCHANGED <<all_urls, read_offset>>
          ELSE /\ all_urls' = all_urls \cup data
               /\ read_offset' = read_offset + MaxRows
               /\ read_done' = (Cardinality(data) < MaxRows)
    /\ UNCHANGED matching
    /\ unchangedOutsideRead

\* populate_processed_urls reading the vehicles with a link, and
\* process_staging_to_main reading the unprocessed staging rows: one request
\* without range
ReadOnce(name, page) ==
    /\ reader = "none"
    /\ page \in PlainResponses(matching)
    /\ reader' = name
    /\ requests' = 1
    /\ all_urls' = page
    /\ read_done' = TRUE
    /\ UNCHANGED <<matching, read_offset>>
    /\ unchangedOutsideRead

InitRead ==
    /\ PoolInit
    /\ StoreIdle
    /\ stream = NoStream
    /\ PageIdle
    /\ workload = 0
    /\ SessionIdle
    /\ SitesIdle
    /\ LimiterIdle
    /\ MatchIdle
    /\ ParseIdle
    /\ matching \in SUBSET (1..NumReadRows)
    /\ ReadIdle
    /\ HelpersIdle

NextRead ==
    \/ GetUrlPoolWindow
    \/ \E name \in {"populate_processed_urls", "process_staging_to_main"},
          page \in SUBSET matching : ReadOnce(name, page)

SpecRead == InitRead /\ [][NextRead]_vars

(***************************************************************************)
(*     The retries of a search: fill_search_form_with_filters and          *)
(*     click_search_button_with_retry (get_sales_data.py)                  *)
(*                                                                         *)
(* The waits are the sleeps of the code, asyncio.sleep and                 *)
(* page.wait_for_timeout, in milliseconds; the time an operation takes to  *)
(* fail is not counted.  search_with_retry of get_data.py has no part      *)
(* here: the search it retries, search_make_all_models, catches every      *)
(* exception itself (get_data.py 600-681) and never raises.                *)
(***************************************************************************)

\* max_retries of click_search_button_with_retry
click_max_retries == 3

\* `await page.wait_for_timeout(100)`
ResponsiveCheck == 100

\* `await asyncio.sleep(1)` of click_search_button_with_retry
ClickRetryWait == 1000

\* `await asyncio.sleep(2)` of fill_search_form_with_filters
FormRetryWait == 2000

\* the three `await asyncio.sleep(0.5)` between the selections of the form
FormSleeps == 1500

FormOutcomes == {"filled", "raises", "not_found"}

ClickOutcomes == {"clicked", "raises", "not_visible", "unresponsive"}

unchangedOutsideRetry ==
    UNCHANGED <<poolVars, storeVars, pageVars, sessionVars, siteVars, limiterVars,
                matchVars, parseVars, readVars, spacingVars, enrichVars,
                consumerVars>>

\* the sleep before the next attempt of the click, the same after every
\* attempt
ClickBackoff(attempt) == ClickRetryWait

\* fill_search_form_with_filters after an attempt that failed, having slept
\* `slept_ms` since the last trigger: sleep 2 s and go on with the next
\* attempt, or return False after the last
FormAttemptFailed(slept_ms) ==
    IF form_attempt < max_retries - 1
    THEN /\ pending_wait' = slept_ms + FormRetryWait
         /\ form_attempt' = form_attempt + 1
         /\ retry_pc' = "form"
         /\ retry_result' = retry_result
    ELSE /\ pending_wait' = slept_ms
         /\ form_attempt' = form_attempt
         /\ retry_pc' = "done"
         /\ retry_result' = "failed"

\* one pass of the loop of fill_search_form_with_filters up to the call of
\* click_search_button_with_retry
FillForm(outcome) ==
    /\ retry_pc = "form"
    /\ CASE outcome = "filled" ->
              /\ pending_wait' = pending_wait + FormSleeps
              /\ retry_pc' = "click"
              /\ UNCHANGED <<form_attempt, retry_result>>
         [] outcome = "raises" -> FormAttemptFailed(pending_wait)
         [] outcome = "not_found" ->
              /\ retry_pc' = "done"
              /\ retry_result' = "failed"
              /\ UNCHANGED <<form_attempt, pending_wait>>
    /\ click_attempt' = 0
    /\ UNCHANGED <<retrier, clicks, waits, clicked>>
    /\ unchangedOutsideRetry

\* one pass of the loop of click_search_button_with_retry, and what
\* fill_search_form_with_filters does when the function returns
ClickOnce(outcome) ==
    /\ retry_pc = "click"
    /\ LET triggered == outcome \in {"clicked", "raises"}
           slept_ms == pending_wait + ResponsiveCheck
           last == click_attempt = click_max_retries - 1
       IN /\ clicks' = IF triggered THEN clicks + 1 ELSE clicks
          /\ waits' = IF triggered /\ clicks >= 1 THEN Append(waits, slept_ms)
                       ELSE waits
          /\ clicked' = IF triggered THEN outcome = "clicked" ELSE clicked
          /\ CASE outcome = "clicked" ->
                    /\ retry_pc' = "done"
                    /\ retry_result' = "success"
                    /\ pending_wait' = 0
                    /\ UNCHANGED <<form_attempt, click_attempt>>
               [] outcome = "unresponsive" ->
                    /\ FormAttemptFailed(pending_wait)
                    /\ UNCHANGED click_attempt
               [] outcome = "not_visible" ->
                    IF last
                    THEN FormAttemptFailed(slept_ms) /\ UNCHANGED click_attempt
                    ELSE /\ click_attempt' = click_attempt + 1
                         /\ pending_wait' = slept_ms
                         /\ UNCHANGED <<form_attempt, retry_pc, retry_result>>
               [] outcome = "raises" ->
                    IF last
                    THEN FormAttemptFailed(0) /\ UNCHANGED click_attempt
                    ELSE /\ click_attempt' = click_attempt + 1
                         /\ pending_wait' = ClickBackoff(click_attempt)
                         /\ UNCHANGED <<form_attempt, retry_pc, retry_result>>
    /\ UNCHANGED retrier
    /\ unchangedOutsideRetry

\* fill_search_form_with_filters has been called for a task
InitRetry ==
    /\ PoolInit
    /\ StoreIdle
    /\ stream = NoStream
    /\ PageIdle
    /\ workload = 0
    /\ SessionIdle
    /\ SitesIdle
    /\ LimiterIdle /\ MatchIdle /\ ParseIdle /\ matching = {} /\ ReadIdle
    /\ SpacingIdle
    /\ EnrichIdle
    /\ ConsumersIdle
    /\ retrier = "fill_search_form_with_filters"
    /\ retry_pc = "form"
    /\ form_attempt = 0
    /\ click_attempt = 0
    /\ clicks = 0
    /\ pending_wait = 0
    /\ waits = <<>>
    /\ clicked = FALSE
    /\ retry_result = "none"

NextRetry ==
    \/ \E outcome \in FormOutcomes : FillForm(outcome)
    \/ \E outcome \in ClickOutcomes : ClickOnce(outcome)

SpecRetry == InitRetry /\ [][NextRetry]_vars

(***************************************************************************)
(*     The fixed-interval limiter: EnhancedSearchOptimizer                 *)
(*     .respect_rate_limit (get_data.py)                                   *)
(*                                                                         *)
(* process_all_sites_simply starts one coroutine per site, and the         *)
(* coroutine of a site is the only caller of respect_rate_limit with the   *)
(* name of that site: once in the loop of _process_single_site and once    *)
(* more in search_with_retry, before the search, the request to the site.  *)
(* The coroutines share the limiter and run on one event loop: they        *)
(* interleave at the sleeps and during the searches.  An asyncio.sleep     *)
(* ends at its time or later.                                              *)
(***************************************************************************)

\* self.min_request_interval = 2.0
min_request_interval == 2

unchangedOutsideSpacing ==
    UNCHANGED <<poolVars, storeVars, pageVars, sessionVars, siteVars, limiterVars,
                matchVars, parseVars, readVars, retryVars, enrichVars,
                consumerVars>>

\* a limiter that never waits
NoSleep(time_diff) == 0

\* the argument of the asyncio.sleep of respect_rate_limit, 0 for no sleep
SleepFor(time_diff) ==
    IF time_diff < min_request_interval THEN min_request_interval - time_diff ELSE 0

\* respect_rate_limit has returned to the coroutine of site x at `pc`:
\* the call of _process_single_site is followed by the call of
\* search_with_retry, and that one by the search
AfterRateLimit(x, pc) ==
    /\ last_request_time' = [last_request_time EXCEPT ![x] = clock]
    /\ IF pc = "first"
       THEN /\ spacing_pc' = [spacing_pc EXCEPT ![x] = "second"]
            /\ UNCHANGED request_at
       ELSE /\ spacing_pc' = [spacing_pc EXCEPT ![x] = "searching"]
            /\ request_at' = [request_at EXCEPT ![x] = Append(@, clock)]

\* the next pass of the loop over the searches of site x begins
NextSearch(x) ==
    /\ spacing_pc[x] = "idle"
    /\ Len(request_at[x]) < NumSearches
    /\ spacing_pc' = [spacing_pc EXCEPT ![x] = "first"]
    /\ UNCHANGED <<clock, last_request_time, wake_at, request_at>>
    /\ unchangedOutsideSpacing

\* respect_rate_limit(site_name) up to its sleep, or to its end when it does
\* not sleep
RespectRateLimit(x) ==
    /\ spacing_pc[x] \in {"first", "second"}
    /\ LET time_diff == clock - last_request_time[x]
       IN IF SleepFor(time_diff) > 0
          THEN /\ wake_at' = [wake_at EXCEPT ![x] = clock + SleepFor(time_diff)]
               /\ spacing_pc' = [spacing_pc EXCEPT ![x] =
                                     IF @ = "first" THEN "sleep_first"
                                     ELSE "sleep_second"]
               /\ UNCHANGED <<last_request_time, request_at>>
          ELSE /\ AfterRateLimit(x, spacing_pc[x])
               /\ UNCHANGED wake_at
    /\ UNCHANGED clock
    /\ unchangedOutsideSpacing

\* the sleep of respect_rate_limit is over: self.last_request_time[site_name]
\* = time.time()
WakeUp(x) ==
    /\ spacing_pc[x] \in {"sleep_first", "sleep_second"}
    /\ clock >= wake_at[x]
    /\ AfterRateLimit(x, IF spacing_pc[x] = "sleep_first" THEN "first" ELSE "second")
    /\ UNCHANGED <<clock, wake_at>>
    /\ unchangedOutsideSpacing

\* search_with_retry returns to the loop
SearchReturns(x) ==
    /\ spacing_pc[x] = "searching"
    /\ spacing_pc' = [spacing_pc EXCEPT ![x] = "idle"]
    /\ UNCHANGED <<clock, last_request_time, wake_at, request_at>>
    /\ unchangedOutsideSpacing

\* a second passes
Tick ==
    /\ clock < MaxTime
    /\ clock' = clock + 1
    /\ UNCHANGED <<last_request_time, spacing_pc, wake_at, request_at>>
    /\ unchangedOutsideSpacing

InitSpacing ==
    /\ PoolInit
    /\ StoreIdle
    /\ stream = NoStream
    /\ PageIdle
    /\ workload = 0
    /\ SessionIdle
    /\ SitesIdle
    /\ ToolsIdle

NextSpacing ==
    \/ \E x \in CrawlSites : NextSearch(x)
    \/ \E x \in CrawlSites : RespectRateLimit(x)
    \/ \E x \in CrawlSites : WakeUp(x)
    \/ \E x \in CrawlSites : SearchReturns(x)
    \/ Tick

SpecSpacing == InitSpacing /\ [][NextSpacing]_vars

(***************************************************************************)
(*     The enrichment loop: AuctionDataExtractor.run_extraction            *)
(*     (extract_auction_data.py)                                           *)
(*                                                                         *)
(* The loop fetches up to 10 unprocessed entries, starts a task per entry  *)
(* and waits for all of them, sleeps, and fetches again; it ends when a    *)
(* fetch returns nothing.  What the site and the store do to an entry is   *)
(* the input of the action that processes it.                              *)
(***************************************************************************)

\* get_unprocessed_urls(limit=10)
FetchLimit == 10

\* the entries of the ledger of this loop, the first two of one site
NumEnrichEntries == 3

EntryOutcomes == {"saved", "extraction_failed", "save_failed"}

unchangedOutsideEnrich ==
    /\ UNCHANGED <<vehicles, staging_vehicles, store_faults, submitted, history,
                   last_staged, write_failed, staging_failed, fetched>>
    /\ UNCHANGED <<poolVars, pageVars, sessionVars, siteVars, limiterVars, matchVars,
                   parseVars, readVars, retryVars, spacingVars, consumerVars>>

\* `urls = self.get_unprocessed_urls(limit=10)` and `if not urls: break`;
\* a fetch that raises returns []
FetchBatch(batch, raised) ==
    /\ enrich_pc = "fetch"
    /\ batch \in (IF raised THEN {{}} ELSE LimitedTo(FetchLimit, Unprocessed))
    /\ url_batch' = {p.id : p \in batch}
    /\ enrich_pc' = IF batch = {} THEN "exited" ELSE "process"
    /\ UNCHANGED <<processed_urls, vehicle_details, ever_failed>>
    /\ unchangedOutsideEnrich

\* the update of save_extracted_data after the upsert: processed, completed,
\* the error message cleared
SavedUpdate(p) ==
    [p EXCEPT !.processed = TRUE, !.processing_completed = "set",
              !.error_message = Null]

\* the task of one entry of the batch, extract_data_from_url, and
\* save_extracted_data when the extraction returned data; after the last
\* entry of the batch process_url_batch returns and the loop sleeps
ProcessUrl(id, outcome) ==
    /\ enrich_pc = "process"
    /\ id \in url_batch
    /\ LET started == [Entry(id) EXCEPT !.processing_started = "set"]
       IN processed_urls' =
              UpdateById(id,
                  CASE outcome = "saved" -> SavedUpdate(started)
                    [] outcome = "extraction_failed" ->
                           FailedUpdate(started, "Extraction failed")
                    [] outcome = "save_failed" ->
                           FailedUpdate(started, "Database error"))
    /\ vehicle_details' = IF outcome = "saved" THEN vehicle_details \cup {id}
                          ELSE vehicle_details
    /\ ever_failed' = (ever_failed \/ outcome # "saved")
    /\ url_batch' = url_batch \ {id}
    /\ enrich_pc' = IF url_batch' = {} THEN "fetch" ELSE "process"
    /\ unchangedOutsideEnrich

\* run_extraction has reached its loop on a ledger whose entries are new, or
\* were attempted by an earlier run that failed or saved them
InitEnrich ==
    /\ PoolInit
    /\ stream = NoStream
    /\ PageIdle
    /\ workload = 0
    /\ SessionIdle
    /\ SitesIdle
    /\ LimiterIdle /\ MatchIdle /\ ParseIdle /\ matching = {} /\ ReadIdle
    /\ RetryIdle
    /\ SpacingIdle
    /\ ConsumersIdle
    /\ vehicles = {}
    /\ staging_vehicles = {}
    /\ \E before \in [1..NumEnrichEntries -> {"new", "failed", "saved"}] :
          /\ processed_urls =
                 {LET p == LedgerRow(i, IF i <= 2 THEN "AutoPacific" ELSE "Zervtek",
                                     LedgerUrl(i - 2 * ((i - 1) \div 2)), i)
                  IN CASE before[i] = "new" -> p
                       [] before[i] = "failed" ->
                              FailedUpdate([p EXCEPT !.processing_started = "set"],
                                           "Extraction failed")
                       [] before[i] = "saved" ->
                              SavedUpdate([p EXCEPT !.processing_started = "set"])
                  : i \in 1..NumEnrichEntries}
          /\ vehicle_details = {i \in 1..NumEnrichEntries : before[i] = "saved"}
    /\ store_faults = 0
    /\ submitted = 0
    /\ history = [k \in Keys |-> <<>>]
    /\ last_staged = <<>>
    /\ write_failed = FALSE
    /\ staging_failed = FALSE
    /\ fetched = [ids |-> {}, limit |-> 0, turn |-> 0]
    /\ enrich_pc = "fetch"
    /\ url_batch = {}
    /\ ever_failed = FALSE

NextEnrich ==
    \/ \E batch \in SUBSET processed_urls, raised \in BOOLEAN :
           FetchBatch(batch, raised)
    \/ \E id \in 1..NumEnrichEntries, outcome \in EntryOutcomes :
           ProcessUrl(id, outcome)

\* the loop is one coroutine that is always scheduled again
SpecEnrich == InitEnrich /\ [][NextEnrich]_vars /\ WF_vars(NextEnrich)

(***************************************************************************)
(*        Runs of the enrichment loop sharing one ledger                   *)
(*                                                                         *)
(* Each consumer is a run of AuctionDataExtractor.run_extraction against   *)
(* the same store.  The store calls are synchronous, so a fetch and a      *)
(* status update are one step each; between mark_processing_started and    *)
(* the end of its task a consumer awaits the page of the site, and the     *)
(* other consumer runs.                                                    *)
(***************************************************************************)

unchangedOutsideConsumers ==
    /\ UNCHANGED <<vehicles, staging_vehicles, store_faults, submitted, history,
                   last_staged, write_failed, staging_failed, fetched>>
    /\ UNCHANGED <<poolVars, pageVars, sessionVars, siteVars, limiterVars, matchVars,
                   parseVars, readVars, retryVars, spacingVars, enrichVars>>

\* `urls = self.get_unprocessed_urls(limit=10)` and `if not urls: break` of
\* consumer c; a fetch that raises returns []
ConsumerFetch(c, batch, raised) ==
    /\ consumer_pc[c] = "fetch"
    /\ batch \in (IF raised THEN {{}} ELSE LimitedTo(FetchLimit, Unprocessed))
    /\ consumer_batch' = [consumer_batch EXCEPT ![c] = {p.id : p \in batch}]
    /\ consumer_pc' = [consumer_pc EXCEPT
                          ![c] = IF batch = {} THEN "exited" ELSE "process"]
    /\ UNCHANGED <<processed_urls, vehicle_details, in_progress>>
    /\ unchangedOutsideConsumers

\* the task of an entry of the batch of consumer c reaches its first await:
\* mark_processing_started(id), then the navigation to the page
ConsumerStart(c, id) ==
    /\ consumer_pc[c] = "process"
    /\ id \in consumer_batch[c]
    /\ processed_urls' = UpdateById(id,
           [Entry(id) EXCEPT !.processing_started = "set"])
    /\ consumer_batch' = [consumer_batch EXCEPT ![c] = @ \ {id}]
    /\ in_progress' = [in_progress EXCEPT ![c] = @ \cup {id}]
    /\ UNCHANGED <<consumer_pc, vehicle_details>>
    /\ unchangedOutsideConsumers

\* the task of an entry of consumer c ends: mark_processing_failed in the
\* task, or save_extracted_data on what it returned; after the last entry
\* process_url_batch returns and the loop fetches again
ConsumerFinish(c, id, outcome) ==
    /\ consumer_pc[c] = "process"
    /\ id \in in_progress[c]
    /\ processed_urls' =
           UpdateById(id,
               CASE outcome = "saved" -> SavedUpdate(Entry(id))
                 [] outcome = "extraction_failed" ->
                        FailedUpdate(Entry(id), "Extraction failed")
                 [] outcome = "save_failed" ->
                        FailedUpdate(Entry(id), "Database error"))
    /\ vehicle_details' = IF outcome = "saved" THEN vehicle_details \cup {id}
                          ELSE vehicle_details
    /\ in_progress' = [in_progress EXCEPT ![c] = @ \ {id}]
    /\ consumer_pc' = [consumer_pc EXCEPT
                          ![c] = IF consumer_batch[c] = {} /\ in_progress'[c] = {}
                                 THEN "fetch" ELSE "process"]
    /\ UNCHANGED consumer_batch
    /\ unchangedOutsideConsumers

\* both runs have reached their loop on a ledger of new entries
InitConsumers ==
    /\ PoolInit
    /\ stream = NoStream
    /\ PageIdle
    /\ workload = 0
    /\ SessionIdle
    /\ SitesIdle
    /\ LimiterIdle /\ MatchIdle /\ ParseIdle /\ matching = {} /\ ReadIdle
    /\ RetryIdle
    /\ SpacingIdle
    /\ EnrichIdle
    /\ vehicles = {}
    /\ staging_vehicles = {}
    /\ processed_urls = {LedgerRow(i, "AutoPacific", LedgerUrl(i), i)
                            : i \in 1..NumLedgerEntries}
    /\ vehicle_details = {}
    /\ store_faults = 0
    /\ submitted = 0
    /\ history = [k \in Keys |-> <<>>]
    /\ last_staged = <<>>
    /\ write_failed = FALSE
    /\ staging_failed = FALSE
    /\ fetched = [ids |-> {}, limit |-> 0, turn |-> 0]
    /\ consumer_pc = [c \in Consumers |-> "fetch"]
    /\ consumer_batch = [c \in Consumers |-> {}]
    /\ in_progress = [c \in Consumers |-> {}]

NextConsumers ==
    \/ \E c \in Consumers, batch \in SUBSET processed_urls, raised \in BOOLEAN :
           ConsumerFetch(c, batch, raised)
    \/ \E c \in Consumers, id \in 1..NumLedgerEntries : ConsumerStart(c, id)
    \/ \E c \in Consumers, id \in 1..NumLedgerEntries, outcome \in EntryOutcomes :
           ConsumerFinish(c, id, outcome)

SpecConsumers == InitConsumers /\ [][NextConsumers]_vars

(***************************************************************************)
(*                    Claims about pagination                              *)
(***************************************************************************)

\* the stream of C15: three pages of 10, 10 and 4 rows, every row with its
\* cells, and no anchor with the text 4 on the last page
ThreePages ==
    /\ stream.pages = 3
    /\ PageRows = 10
    /\ stream.last = 4
    /\ stream.short = 0
    /\ 4 \notin stream.others

\* the loop was left by one of its own tests, not by a timeout or an exception
LeftByTest == stop \in {"no_rows", "no_next", "not_clicked", "page_limit"}

\* C15: on the stream of three pages with 10, 10 and 4 rows the extraction
\* that starts on the first page and meets no timeout and no exception returns
\* 24 rows, has clicked to pages 2 and 3 only, and ends on page 3.
C15_ThreePagesGive24Rows ==
    (ThreePages /\ extraction = 1 /\ LeftByTest)
        => /\ all_results = 24
           /\ requested = 2
           /\ pages_read = 3
           /\ shown = 3

\* the extraction has ended on page 3 of the stream, where another anchor
\* shows a greater number and none the text 4
C15_Witness ==
    /\ ThreePages
    /\ extraction = 1
    /\ stop = "not_clicked"
    /\ page_num = 3
    /\ all_results = 24

\* C35: when the call of process_site_session, the one whose rows are saved,
\* has ended on a stream of at most 50 pages with no other numbered anchors,
\* no timeout and no exception, it has read every page of the stream, each
\* once.
C35_SavedRowsAreAllPagesOnce ==
    (/\ extraction = 2
     /\ stop # "none"
     /\ page_faults = 0
     /\ stream.pages <= MaxPages
     /\ stream.others = {})
        => /\ pages_seen = 1..stream.pages
           /\ pages_read = stream.pages

Places(s) == 1..Len(Shard(s))

\* C17: a pass that ends with the make or the model of its task unresolved
\* leaves a record of the failure, has made one attempt at the search, changes
\* the result of no other task, and leaves the worker on the same session at
\* the next task of its shard.
C17_NoMatchFailsOnlyItsTask ==
    [][\A s \in Sessions : \A n \in Places(s) :
          (/\ task_result[Shard(s)[n]] = "none"
           /\ task_result'[Shard(s)[n]] = "no_match")
          => /\ Shard(s)[n] \in recorded'
             /\ search_attempts'[Shard(s)[n]] = 1
             /\ attempts'[Shard(s)[n]] = 1
             /\ \A u \in Tasks \ {Shard(s)[n]} : task_result'[u] = task_result[u]
             /\ launched'[s] = launched[s]
             /\ ~unusable'[s]
             /\ n < Len(Shard(s)) =>
                    session_pc'[s] = "tasks" /\ item'[s] = n + 1]_vars

\* C18: a worker makes no pass over a task on a session whose execution
\* context is gone: it launches a fresh browser first.
C18_NoTaskOnUnusableSession ==
    [][\A s \in Sessions : \A n \in Places(s) :
          (unusable[s] /\ attempts'[Shard(s)[n]] > attempts[Shard(s)[n]])
          => launched'[s] > launched[s]]_vars

\* the outcomes with which a session becomes unusable
Unusable == {"context_destroyed", "critical_error"}

\* the task that was in progress when the session of worker s became unusable
Interrupted(s) ==
    {Shard(s)[n] : n \in {m \in Places(s) :
        /\ task_result[Shard(s)[m]] \in Unusable
        /\ \A l \in 1..(m - 1) : task_result[Shard(s)[l]] \notin Unusable}}

\* C19: when a worker has ended, the task that was in progress when its
\* session became unusable has been attempted twice, and no task more often.
C19_InterruptedTaskAttemptedTwice ==
    /\ \A t \in Tasks : attempts[t] <= 2
    /\ \A s \in Sessions :
          session_pc[s] = "done" => \A t \in Interrupted(s) : attempts[t] = 2

\* C20: when the login of a worker of the site has failed, no task of the
\* site has been attempted, and the worker has called login once.
C20_LoginFailureFailsSite ==
    \A s \in login_failed :
        /\ \A t \in Tasks : attempts[t] = 0
        /\ logins[s] = 1

\* C37: once a worker has logged in and stands in its loop, every task of its
\* shard is attempted, whatever the tasks before it came to; and a worker that
\* has ended after its login has attempted every task of its shard.
C37_EveryTaskOfShardAttempted ==
    /\ \A s \in Sessions :
           (session_pc[s] = "tasks")
               ~> (\A n \in Places(s) : attempts[Shard(s)[n]] >= 1)
    /\ [](\A s \in Sessions :
             (session_pc[s] = "done" /\ logins[s] >= 1 /\ s \notin login_failed)
                 => \A n \in Places(s) : attempts[Shard(s)[n]] >= 1)

\* the first task of a shard has lost the execution context or raised, and
\* the second task of the shard has been attempted
C37_Witness ==
    \E s \in Sessions :
        /\ Len(Shard(s)) = 2
        /\ task_result[Shard(s)[1]] \in {"context_destroyed", "other_error"}
        /\ attempts[Shard(s)[2]] >= 1
        /\ session_pc[s] = "done"

\* C33: every task of the workload of a site is in the shard of exactly one
\* worker, at one place of it, and the shards hold nothing but tasks of the
\* workload.
C33_ShardsPartitionWorkload ==
    /\ \A t \in Tasks :
           Cardinality({s \in Sessions : \E n \in Places(s) : Shard(s)[n] = t}) = 1
    /\ \A s \in Sessions : \A m, n \in Places(s) :
           /\ Shard(s)[n] \in Tasks
           /\ Shard(s)[m] = Shard(s)[n] => m = n

\* a workload with more tasks than workers: a worker has ended after a pass
\* over each of the two tasks of its shard, and the site is done
C33_Witness ==
    /\ workload > num_sessions
    /\ site_done
    /\ \E s \in Sessions :
           /\ Len(Shard(s)) = 2
           /\ session_pc[s] = "done"
           /\ \A n \in Places(s) : attempts[Shard(s)[n]] >= 1

(***************************************************************************)
(*                    Claims about the run over all sites                  *)
(***************************************************************************)

\* C21: the run ends, and when a run that was not cancelled has summed its
\* results, every search of every site that logged in has been attempted,
\* whichever searches raised, and the sum is the sum of the totals the sites
\* returned.
C21_TaskFailureNeverAbortsRun ==
    /\ [](grand_total # NoResult =>
            /\ \A x \in logged_in : searched[x] = Searches
            /\ \A x \in CrawlSites : site_pc[x] = "done"
            /\ grand_total =
                   Cardinality(UNION {{<<x, k>> : k \in 1..site_results[x]} :
                                         x \in CrawlSites})
            /\ \A x \in logged_in :
                   site_results[x] \in {0, total_listings[x]})
    /\ <>(run_pc = "exited")

\* a search of one site has raised, another search of that site and the
\* searches of another site have saved listings, and the sum has them
C21_Witness ==
    /\ grand_total > 0
    /\ \E x, y \in CrawlSites :
          /\ x # y
          /\ search_errors[x] = {1}
          /\ site_results[x] > 0
          /\ site_results[y] > 0

\* C22: when a cancelled run has exited, every browser a site has acquired
\* has been put back into the pool or closed and no site holds one; and a
\* cancelled run does exit.
C22_CancelledRunReleasesSessions ==
    /\ [](run_pc = "exited" /\ cancel_requested =>
            /\ \A b \in acquired : b \in released \/ closed[b] >= 1
            /\ \A x \in CrawlSites : site_browser[x] = NoBrowser
            /\ in_use = {})
    /\ (cancel_requested ~> run_pc = "exited")

\* the run was cancelled while one site held a browser and another waited
\* for one, and has exited
C22_Witness ==
    /\ run_pc = "exited" /\ cancel_requested
    /\ \E x, y \in CrawlSites :
          /\ site_results[x] = CancelledResult /\ x \in logged_in
          /\ site_results[y] = CancelledResult /\ y \notin logged_in
    /\ Cardinality(acquired) = pool_size
    /\ acquired \subseteq released

(***************************************************************************)
(*                    Claims about the rate limiter                        *)
(***************************************************************************)

\* C23: after any number of consecutive calls with had_error the delay is
\* greater than before the first of them unless it was at max_delay then,
\* and the delay never exceeds max_delay.
C23_ErrorsRaiseDelayToCeiling ==
    /\ current_delay <= max_delay
    /\ error_streak >= 1 => (current_delay > error_from \/ error_from = max_delay)

\* three errors in a row, the last of which met the ceiling
C23_Witness ==
    /\ error_streak >= 3
    /\ error_from < max_delay
    /\ delay_at_call < max_delay
    /\ current_delay = max_delay

\* C24: after any number of consecutive fast successes the delay is smaller
\* than before the first of them unless it was at min_delay then, and the
\* delay never falls below min_delay.
C24_FastSuccessesLowerDelayToFloor ==
    /\ current_delay >= min_delay
    /\ fast_streak >= 1 => (current_delay < fast_from \/ fast_from = min_delay)

\* C25: a call sleeps for the delay that was current when it began.
C25_SleepsBeforeAdjusting ==
    calls >= 1 => slept = delay_at_call

(***************************************************************************)
(*                    Claims about the resolver                            *)
(***************************************************************************)

\* the score of option i of the call
ScoreOf(i) == CalculateMatchScore(search_term, options[i])

\* the resolver has returned
Returned == best_match # NotCalled

\* C26: the resolver returns no option whose score is 0 or less, and when
\* every option scores 0 it returns no option.
C26_NeverReturnsZeroScore ==
    Returned =>
        /\ best_match.value # NoValue => ScoreOf(best_match.value) > 0
        /\ (\A i \in 1..Len(options) : ScoreOf(i) = 0) => best_match.value = NoValue

\* two options or more, every one with score 0, and no option returned
C26_Witness ==
    /\ Returned
    /\ Len(options) >= 2
    /\ \A i \in 1..Len(options) : ScoreOf(i) = 0
    /\ best_match = [value |-> NoValue, info |-> "no_matches_found"]

\* the options whose base label is the search term, case and outer spaces
\* apart
ExactOptions ==
    {i \in 1..Len(options) :
        Strip(UpperText(ExtractBaseName(options[i]))) = Strip(UpperText(search_term))}

\* C27: when the base label of some option equals the search term, the
\* resolver returns an option whose base label is the search term, wherever
\* the options that only contain it stand in the list; for "ACCORD" among
\* "ACCORD (267556)" and "ACCORD PHEV (1)", in either order, it returns
\* "ACCORD (267556)".
C27_BaseLabelBeatsVariants ==
    Returned =>
        /\ (\E i \in 1..Len(options) : ExtractBaseName(options[i]) = search_term)
           => best_match.value \in ExactOptions
        /\ (search_term = Accord /\ options = <<AccordCount, AccordPhev>>)
           => best_match.value = 1
        /\ (search_term = Accord /\ options = <<AccordPhev, AccordCount>>)
           => best_match.value = 2

\* "ACCORD" looked for among "ACCORD PHEV (1)" and "ACCORD (267556)", the
\* variant listed first
C27_Witness ==
    /\ Returned
    /\ search_term = Accord
    /\ options = <<AccordPhev, AccordCount>>
    /\ best_match.value = 2

\* C28: when some option scores above 0 the resolver returns an option, no
\* option scores higher than the one returned, and no option with the same
\* score has a shorter text.
C28_HighestScoreThenShortest ==
    Returned =>
        /\ (\E i \in 1..Len(options) : ScoreOf(i) > 0) => best_match.value # NoValue
        /\ best_match.value # NoValue =>
               \A j \in 1..Len(options) :
                   /\ ScoreOf(j) <= ScoreOf(best_match.value)
                   /\ ScoreOf(j) = ScoreOf(best_match.value)
                      => Len(options[j]) >= Len(options[best_match.value])

\* two options share the highest score, the longer one is listed first, a
\* third option scores less and is shorter than both, and the shorter of the
\* two is returned
C28_Witness ==
    /\ Returned
    /\ Len(options) = 3
    /\ best_match.value = 3
    /\ ScoreOf(1) = ScoreOf(3)
    /\ Len(options[1]) > Len(options[3])
    /\ ScoreOf(2) > 0 /\ ScoreOf(2) < ScoreOf(3)
    /\ Len(options[2]) < Len(options[3])

(***************************************************************************)
(*                    Claims about the parsers                             *)
(***************************************************************************)

\* C29: a parser returns the integer that the digits of the text form in
\* their order, 0 when the text has none; "12,345 km" gives 12345, "- - -"
\* gives 0 and "" gives 0.
C29_ParseNumericKeepsDigitsOnly ==
    parser # "none" =>
        /\ parsed = IntOf(DigitsOf(value_str))
        /\ value_str = Mileage => parsed = 12345
        /\ value_str = Dashes => parsed = 0
        /\ value_str = <<>> => parsed = 0

(***************************************************************************)
(*                    Claims about reads                                   *)
(***************************************************************************)

\* C30: a read that has ended has returned every row the filter matches,
\* also when these are more than a page of the store.
C30_ReadsReturnEveryMatchingRow ==
    read_done => all_urls = matching

(***************************************************************************)
(*                    Claims about the staged ingest                       *)
(***************************************************************************)

\* C32: the rows one call of the staged handler adds to staging_vehicles hold
\* each (site_name, lot_number) at most once, a row for every key of the
\* batch, and the row of a key has the price of the first listing of that key
\* in the batch.
C32_StagedRowsOncePerKey ==
    [][LET new == {r \in staging_vehicles' :
                      r.id \notin {q.id : q \in staging_vehicles}}
       IN /\ \A r, q \in new : ListingKey(r) = ListingKey(q) => r = q
          /\ \A r \in new :
                 /\ Len(history'[ListingKey(r)]) = Len(history[ListingKey(r)]) + 1
                 /\ r.price =
                        history'[ListingKey(r)][Len(history'[ListingKey(r)])][1]
          /\ new # {} =>
                 \A k \in Keys :
                     history'[k] # history[k] =>
                         \E r \in new : ListingKey(r) = k]_vars

\* one staged call has handed in two listings of one lot with different
\* prices, and staging_vehicles has the one row of the first
C32_Witness ==
    \E k \in Keys :
        /\ Len(history[k]) = 1
        /\ Len(history[k][1]) = 2
        /\ history[k][1][1] # history[k][1][2]
        /\ \E r \in staging_vehicles :
               /\ ListingKey(r) = k
               /\ r.price = history[k][1][1]
               /\ \A q \in staging_vehicles : ListingKey(q) = k => q = r

(***************************************************************************)
(*                    Claims about the retries of a search                 *)
(***************************************************************************)

\* C31: the search of a task is triggered at most 3 times, each wait between
\* two successive triggers is at least twice the wait before it, and when
\* the function has ended after a trigger that raised it has returned a
\* failure.
C31_ThreeAttemptsExponentialBackoff ==
    /\ clicks <= click_max_retries
    /\ \A i \in 2..Len(waits) : waits[i] >= 2 * waits[i - 1]
    /\ (retry_pc = "done" /\ clicks >= 1 /\ ~clicked) => retry_result = "failed"

(***************************************************************************)
(*                    Claims about the fixed-interval limiter              *)
(***************************************************************************)

C36_EnrichmentLoopTerminates == <>(enrich_pc = "exited")


(***************************************************************************)
(*            Claims about runs sharing the ledger                         *)
(***************************************************************************)

\* the entries consumer c has been handed and has not finished
HandedTo(c) == consumer_batch[c] \cup in_progress[c]

\* C38: of two concurrent consumers fetching unprocessed ledger entries, an
\* entry that one has fetched and marked started is not handed to the other
\* before it is completed or failed.
C38_StartedEntryNotHandedAgain ==
    \A c \in Consumers, d \in Consumers :
        c # d => in_progress[c] \cap HandedTo(d) = {}


(***************************************************************************)
(*            Claims about ingestion after enrichment                      *)
(***************************************************************************)

\* the listing of the row of entry p is handed in by the step and leaves the
\* row with a link that is not the url of the entry
OwnListingWithChangedLink(p) ==
    \E w \in vehicles' :
        /\ w.id = p.vehicle_id
        /\ ListingKey(w) \in KeysHandedIn
        /\ w.lot_link # NoLink
        /\ w.lot_link # p.url

\* C39: a ledger entry with processed = true is set back to processed = false
\* only by an ingest in which the listing of the entry's own row arrives with
\* a link other than the entry's url; not by an ingest of the unchanged
\* listing and not by an ingest of another listing.
C39_ResetOnlyByOwnChangedLink ==
    [][\A p \in processed_urls, q \in processed_urls' :
          (q.id = p.id /\ p.processed /\ ~q.processed)
              => OwnListingWithChangedLink(p)]_vars


(***************************************************************************)
(*            Claims about the release of a browser                        *)
(***************************************************************************)

\* a caller hands in a browser that is not in in_use
ReleasesUnheld(c) ==
    cpc[c] = "holding" /\ cpc'[c] # "holding" /\ cbrowser[c] \notin in_use

=============================================================================
